---- MODULE Spec2Model ----
\* EnergyPulse: the demand simulator (ingestion/energy.py), the quality
\* checker (quality/checks.py) and the metrics engine (metrics/definitions.py).
\*
\* Units.  Timestamps are minutes since a Monday 00:00.  demand_mwh is held in
\* hundredths of a MWh (the simulator rounds to two decimals).  Multipliers are
\* held as exact rationals; (x / 20) ** 1.5 is held in thousandths.
EXTENDS Integers, Sequences, FiniteSets, TLC

VARIABLES
    weather_records,   \* ingest: the fetched weather list handed to the simulator
    sims,              \* EnergySimulator instances: rng, loop position, output so far
    tape,              \* the values random.Random(seed).gauss has produced, per seed
    history,           \* per instance, the (input, output) of each completed call
    data_type,         \* quality: "weather" (check_weather) or "energy" (check_energy)
    records,           \* quality: the record sequence handed to the checker
    appended,          \* quality: how many records were appended one by one
    results,           \* quality: what the check_* call returned
    energy_records,    \* metrics: the energy sequence handed to the engine
    call,              \* metrics: the engine method called and its other arguments
    metric_results,    \* metrics: what the call returned
    weather_table,     \* storage: the rows of table weather
    energy_table,      \* storage: the rows of table energy
    quality_checks,    \* storage: the rows of table quality_checks, by check_id
    all_results,       \* cli: the verdicts of the latest quality command
    stages,            \* cli: the storage calls and commands executed so far
    last_saved,        \* storage: per table and key, the record most recently saved
    fetched,           \* storage: what the latest get_weather / get_energy returned
    metrics_table,     \* storage: the rows of table metrics, by metric_id
    run,               \* cli: the position and the locals of the run command
    built,             \* models: the latest record construction and its outcome
    observations,      \* demand: the two weather observations compared
    noise_factor,      \* demand: the noise factor applied to both
    demand_pair,       \* demand: the two demands computed
    response,          \* client: the decoded JSON a request returned
    parsed,            \* client: what _parse_response returned for it
    chunks             \* client: the arguments, locals and requests of _fetch_in_chunks

simVars == <<weather_records, sims, tape, history>>
qualityVars == <<data_type, records, appended, results>>

metricVars == <<energy_records, call, metric_results>>

storeVars == <<weather_table, energy_table, quality_checks, all_results, stages,
               last_saved, fetched, metrics_table, run>>

modelVars == <<built>>

demandVars == <<observations, noise_factor, demand_pair>>

clientVars == <<response, parsed, chunks>>

vars == <<simVars, qualityVars, metricVars, storeVars, modelVars, demandVars,
          clientVars>>

\* ------------------------------------------------------------------ bounds

MaxInput == 2      \* longest weather list handed to a simulator
MaxCalls == 2      \* simulate_from_weather calls, over all instances
MaxSeries == 30    \* longest generated series, besides the bulk sizes
MaxExtra == 2      \* records appended to a series one by one
MaxEnergy == 3     \* longest energy sequence handed to the metrics engine
MaxStages == 3     \* storage calls and commands in one behaviour

\* ------------------------------------------------------------ time helpers

Minute(day, hour) == day * 1440 + hour * 60

\* datetime.hour
HourOf(ts) == (ts \div 60) % 24

\* datetime.weekday(): Monday is 0, Sunday is 6
WeekdayOf(ts) == (ts \div 1440) % 7

\* ------------------------------------------------------------ models.py

WeatherRecord(ts, temp, loc) ==
    [timestamp |-> ts, temperature_c |-> temp, humidity_pct |-> 50,
     wind_speed_kmh |-> 10, precipitation_mm |-> 0, cloud_cover_pct |-> 30,
     location |-> loc]

EnergyRecord(ts, demand, temp, weekend, hour, loc) ==
    [timestamp |-> ts, demand_mwh |-> demand, temperature_c |-> temp,
     is_weekend |-> weekend, hour_of_day |-> hour, location |-> loc]

\* pydantic's ValidationError: no record is made
ValidationError == [ok |-> FALSE, record |-> <<>>]

Constructed(fields) == [ok |-> TRUE, record |-> <<fields>>]

\* WeatherRecord(**fields): Field(ge=-60, le=60), Field(ge=0, le=100),
\* Field(ge=0), Field(ge=0), Field(ge=0, le=100)
NewWeatherRecordClamping(fields) ==
    IF /\ 0 <= fields.humidity_pct /\ fields.humidity_pct <= 100
       /\ 0 <= fields.wind_speed_kmh
       /\ 0 <= fields.precipitation_mm
       /\ 0 <= fields.cloud_cover_pct /\ fields.cloud_cover_pct <= 100
    THEN Constructed([fields EXCEPT !.temperature_c =
                         IF @ < -60 THEN -60 ELSE IF @ > 60 THEN 60 ELSE @])
    ELSE ValidationError

NewWeatherRecord(fields) ==
    IF /\ -60 <= fields.temperature_c /\ fields.temperature_c <= 60
       /\ 0 <= fields.humidity_pct /\ fields.humidity_pct <= 100
       /\ 0 <= fields.wind_speed_kmh
       /\ 0 <= fields.precipitation_mm
       /\ 0 <= fields.cloud_cover_pct /\ fields.cloud_cover_pct <= 100
    THEN Constructed(fields)
    ELSE ValidationError

\* EnergyRecord(**fields): demand_mwh Field(ge=0), hour_of_day Field(ge=0, le=23)
NewEnergyRecord(fields) ==
    IF /\ 0 <= fields.demand_mwh
       /\ 0 <= fields.hour_of_day /\ fields.hour_of_day <= 23
    THEN Constructed(fields)
    ELSE ValidationError

NotBuilt == [kind |-> "none", fields |-> <<>>, outcome |-> ValidationError]

ModelsIdle == built = NotBuilt

\* ------------------------------------------------ ingestion/weather.py
\* A decoded JSON value is held with its kind: "absent" (the key is missing),
\* "null", or the kind of value the parser expects ("object", "array").  An
\* array element is <<>> for null and <<v>> for the number v; an element of the
\* time array is [kind |-> "iso", t |-> minutes], [kind |-> "invalid"] (a
\* string fromisoformat rejects) or [kind |-> "null"].

FieldNames ==
    <<"temperature_2m", "relative_humidity_2m", "wind_speed_10m", "precipitation",
      "cloud_cover">>

\* hourly[name][i]: the element, or the exception the subscripts raise
FieldAt(hourly, name, i) ==
    LET field == hourly[name]
    IN  IF field.kind = "absent" THEN [kind |-> "KeyError", value |-> <<>>]
        ELSE IF field.kind = "null" THEN [kind |-> "TypeError", value |-> <<>>]
        ELSE IF i > Len(field.values) THEN [kind |-> "IndexError", value |-> <<>>]
        ELSE [kind |-> "value", value |-> field.values[i]]

RECURSIVE FirstException(_, _, _)
\* The keyword arguments are evaluated in order: the first subscript that
\* raises, from field n on, ends the evaluation
FirstException(hourly, i, n) ==
    IF n > Len(FieldNames) THEN "none"
    ELSE LET at == FieldAt(hourly, FieldNames[n], i)
         IN  IF at.kind # "value" THEN at.kind
             ELSE FirstException(hourly, i, n + 1)

\* The body of the loop for index i: <<record>> when one is appended, <<>>
\* when the index is skipped (KeyError, IndexError, ValueError are caught and
\* logged), "TypeError" when an exception leaves the function.  Python index
\* i is position i + 1 here.
ParseIndex(hourly, i, location) ==
    LET time_str == hourly.time.values[i]
    IN  IF time_str.kind = "null" THEN [raised |-> TRUE, record |-> <<>>]
        ELSE IF time_str.kind = "invalid" THEN [raised |-> FALSE, record |-> <<>>]
        ELSE LET exception == FirstException(hourly, i, 1)
             IN  IF exception = "TypeError" THEN [raised |-> TRUE, record |-> <<>>]
                 ELSE IF exception # "none" THEN [raised |-> FALSE, record |-> <<>>]
                 ELSE LET value(n) == FieldAt(hourly, FieldNames[n], i).value
                      IN  IF \E n \in 1..Len(FieldNames) : value(n) = <<>>
                          THEN [raised |-> FALSE, record |-> <<>>]
                          ELSE [raised |-> FALSE,
                                record |-> NewWeatherRecord(
                                    [timestamp |-> time_str.t,
                                     temperature_c |-> value(1)[1],
                                     humidity_pct |-> value(2)[1],
                                     wind_speed_kmh |-> value(3)[1],
                                     precipitation_mm |-> value(4)[1],
                                     cloud_cover_pct |-> value(5)[1],
                                     location |-> location]).record]

RECURSIVE ParseFrom(_, _, _)
\* The records appended for the indices from i on
ParseFrom(hourly, i, location) ==
    IF i > Len(hourly.time.values) THEN <<>>
    ELSE ParseIndex(hourly, i, location).record \o ParseFrom(hourly, i + 1, location)

\* _parse_response(data, location): the list returned, or the exception that
\* leaves it.  hourly = data.get("hourly", {}); times = hourly.get("time", [])
parse_response(data, location) ==
    IF data.hourly.kind = "absent"
    THEN [called |-> TRUE, raised |-> FALSE, records |-> <<>>]
    ELSE IF data.hourly.kind = "null"
    THEN [called |-> TRUE, raised |-> TRUE, records |-> <<>>]
    ELSE LET hourly == data.hourly.value
         IN  IF hourly.time.kind = "absent"
             THEN [called |-> TRUE, raised |-> FALSE, records |-> <<>>]
             ELSE IF hourly.time.kind = "null"
             THEN [called |-> TRUE, raised |-> TRUE, records |-> <<>>]
             ELSE IF \E i \in 1..Len(hourly.time.values) :
                        ParseIndex(hourly, i, location).raised
             THEN [called |-> TRUE, raised |-> TRUE, records |-> <<>>]
             ELSE [called |-> TRUE, raised |-> FALSE,
                   records |-> ParseFrom(hourly, 1, location)]

\* A datetime is held in half days since a midnight: hour 0 or hour 12 of a
\* day.  date(): the day; timedelta(days=n): 2 * n half days.
DateOf(dt) == dt \div 2

Days(n) == 2 * n

\* chunk_days: int = 30
CHUNK_DAYS == 30

NoResponse == [hourly |-> [kind |-> "absent"]]

NotParsed == [called |-> FALSE, raised |-> FALSE, records |-> <<>>]

NoChunks ==
    [pc |-> "idle", start_date |-> 0, end_date |-> 0, chunk_days |-> 0,
     current_start |-> 0, requests |-> <<>>]

ClientIdle ==
    /\ response = NoResponse
    /\ parsed = NotParsed
    /\ chunks = NoChunks

\* ------------------------------------------------- ingestion/energy.py

Cities == {"new_york", "los_angeles", "chicago", "houston", "phoenix"}

BASE_LOAD ==
    [c \in Cities |->
        CASE c = "new_york" -> 5000
          [] c = "los_angeles" -> 4500
          [] c = "chicago" -> 3500
          [] c = "houston" -> 4000
          [] c = "phoenix" -> 3000]

DEFAULT_LOAD == 3000

COMFORT_MIN == 18
COMFORT_MAX == 24

\* BASE_LOAD.get(weather.location, 3000)
BaseLoad(loc) == IF loc \in Cities THEN BASE_LOAD[loc] ELSE DEFAULT_LOAD

RECURSIVE ISqrtIter(_, _, _)
ISqrtIter(n, lo, hi) ==
    IF lo >= hi THEN lo
    ELSE LET mid == (lo + hi + 1) \div 2
         IN  IF mid * mid <= n THEN ISqrtIter(n, mid, hi)
             ELSE ISqrtIter(n, lo, mid - 1)

\* floor(sqrt(n)) for 0 <= n < 2^31
ISqrt(n) == ISqrtIter(n, 0, 46340)

\* (d / 20) ** 1.5 in thousandths: 1000 * sqrt(d^3 / 8000) = sqrt(125 * d^3)
Pow15Milli(d) == ISqrt(125 * d * d * d)

TempFactorCoolingOnly(temp) ==
    IF temp > COMFORT_MAX THEN 10000 + 4 * Pow15Milli(temp - COMFORT_MAX)
    ELSE 10000

\* 1 + temp_load / base in ten-thousandths:
\*   heating 0.3 * ((COMFORT_MIN - temp) / 20) ** 1.5
\*   cooling 0.4 * ((temp - COMFORT_MAX) / 20) ** 1.5
TempFactor(temp) ==
    IF temp < COMFORT_MIN THEN 10000 + 3 * Pow15Milli(COMFORT_MIN - temp)
    ELSE IF temp > COMFORT_MAX THEN 10000 + 4 * Pow15Milli(temp - COMFORT_MAX)
    ELSE 10000

TimeMultNoEvening(hour) ==
    IF 7 <= hour /\ hour <= 9 THEN 24
    ELSE IF 0 <= hour /\ hour <= 5 THEN 14
    ELSE 20

\* time_mult in twentieths: 1.2, 1.35, 0.7, 1.0
TimeMult(hour) ==
    IF 7 <= hour /\ hour <= 9 THEN 24
    ELSE IF 17 <= hour /\ hour <= 20 THEN 27
    ELSE IF 0 <= hour /\ hour <= 5 THEN 14
    ELSE 20

WeekendMultFlat(is_weekend) == 4

\* weekend_mult in quarters: 0.75 if is_weekend else 1.0
WeekendMult(is_weekend) == IF is_weekend THEN 3 ELSE 4

\* weather.timestamp.weekday() >= 5
IsWeekend(ts) == WeekdayOf(ts) >= 5

\* The values gauss(1.0, 0.05) is modelled to return, in twentieths:
\* 0.95 and 1.05, and the far tails 0.0 and -0.05 that the max(0, demand)
\* clamp exists for.
NoiseVals == {-1, 0, 19, 21}

\* <<floor(a * b / c), (a * b) mod c>> for a >= 0, b >= 0, 0 < c < 7 * 10^8,
\* by halving b, so that a * b (which may not fit TLC's 32-bit integers) is
\* never formed.
RECURSIVE MulDiv(_, _, _)
MulDiv(a, b, c) ==
    IF b = 0 THEN <<0, 0>>
    ELSE LET h == MulDiv(a, b \div 2, c)
             odd == b % 2
             r == 2 * h[2] + odd * (a % c)
         IN  <<2 * h[1] + odd * (a \div c) + r \div c, r % c>>

\* a * b / c rounded to the nearest integer, ties to even (Python's round on
\* a value that is exactly representable)
RoundHalfEven(a, b, c) ==
    LET qr == MulDiv(a, b, c)
        q == qr[1]
        r == qr[2]
    IN  IF 2 * r > c THEN q + 1
        ELSE IF 2 * r < c THEN q
        ELSE IF q % 2 = 0 THEN q ELSE q + 1

\* (base + temp_load) * time_mult * weekend_mult * noise, rounded to hundredths
\* of a MWh: base * TempFactor / 10^4 * tm / 20 * wm / 4 * noise / 20 * 100.
ScaledDemand(base, temp, tm, wm, noise) ==
    LET a == base * TempFactor(temp)
        b == tm * wm * (IF noise < 0 THEN -noise ELSE noise)
        m == RoundHalfEven(a, b, 160000)
    IN  IF noise < 0 THEN -m ELSE m

Max(a, b) == IF a >= b THEN a ELSE b

\* _calculate_demand followed by round(demand, 2); noise is the value drawn
\* from self._rng.gauss(1.0, 0.05)
calculate_demand_unclamped(weather, noise) ==
    ScaledDemand(BaseLoad(weather.location), weather.temperature_c,
                 TimeMult(HourOf(weather.timestamp)),
                 WeekendMult(IsWeekend(weather.timestamp)), noise)

calculate_demand(weather, noise) ==
    Max(0, ScaledDemand(BaseLoad(weather.location), weather.temperature_c,
                        TimeMult(HourOf(weather.timestamp)),
                        WeekendMult(IsWeekend(weather.timestamp)), noise))

NotCompared == <<>>

DemandIdle ==
    /\ observations = NotCompared
    /\ noise_factor = 0
    /\ demand_pair = NotCompared

\* ------------------------------------------------- quality/checks.py

\* An optional number (metric_value, threshold): <<>> is None, <<v>> is v
NoValue == <<>>
Some(v) == <<v>>

\* QualityCheckResult; checked_at defaults to datetime.now()
QualityCheckResult(check_name, status, metric_value, threshold, message, now) ==
    [check_name |-> check_name, status |-> status, metric_value |-> metric_value,
     threshold |-> threshold, message |-> message, checked_at |-> now]

\* An exception leaving a rule
Raises(check_name, now) ==
    QualityCheckResult(check_name, "raised", NoValue, NoValue, "exception", now)

COMPLETENESS_THRESHOLD == 24

check_completeness_strict(recs, dtype, now) ==
    LET count == Len(recs)
        threshold == COMPLETENESS_THRESHOLD
        name == IF dtype = "weather" THEN "weather_completeness"
                ELSE "energy_completeness"
    IN  IF count > threshold
        THEN QualityCheckResult(name, "pass", Some(count), Some(threshold),
                                "Found records", now)
        ELSE IF count >= threshold \div 2
        THEN QualityCheckResult(name, "warn", Some(count), Some(threshold),
                                "Low record count", now)
        ELSE QualityCheckResult(name, "fail", Some(count), Some(threshold),
                                "Insufficient data", now)

check_completeness_no_warn(recs, dtype, now) ==
    LET count == Len(recs)
        threshold == COMPLETENESS_THRESHOLD
        name == IF dtype = "weather" THEN "weather_completeness"
                ELSE "energy_completeness"
    IN  IF count >= threshold
        THEN QualityCheckResult(name, "pass", Some(count), Some(threshold),
                                "Found records", now)
        ELSE QualityCheckResult(name, "fail", Some(count), Some(threshold),
                                "Insufficient data", now)

check_completeness(recs, dtype, now) ==
    LET count == Len(recs)
        threshold == COMPLETENESS_THRESHOLD
        name == IF dtype = "weather" THEN "weather_completeness"
                ELSE "energy_completeness"
    IN  IF count >= threshold
        THEN QualityCheckResult(name, "pass", Some(count), Some(threshold),
                                "Found records", now)
        ELSE IF count >= threshold \div 2
        THEN QualityCheckResult(name, "warn", Some(count), Some(threshold),
                                "Low record count", now)
        ELSE QualityCheckResult(name, "fail", Some(count), Some(threshold),
                                "Insufficient data", now)

\* max(r.timestamp for r in records), records not empty
MaxTimestamp(recs) ==
    CHOOSE t \in {recs[k].timestamp : k \in 1..Len(recs)} :
        \A k \in 1..Len(recs) : recs[k].timestamp <= t

\* metric_value is the age in minutes (the code: hours, as a float)
check_freshness_unguarded(recs, max_age_hours, now) ==
    IF recs = <<>> THEN Raises("weather_freshness", now)
    ELSE LET age == now - MaxTimestamp(recs)
         IN  IF age <= max_age_hours * 60
             THEN QualityCheckResult("weather_freshness", "pass", Some(age),
                                     Some(max_age_hours), "Latest data", now)
             ELSE IF age <= max_age_hours * 2 * 60
             THEN QualityCheckResult("weather_freshness", "warn", Some(age),
                                     Some(max_age_hours), "Data is stale", now)
             ELSE QualityCheckResult("weather_freshness", "fail", Some(age),
                                     Some(max_age_hours), "Data is very stale", now)

check_freshness_exclusive(recs, max_age_hours, now) ==
    IF recs = <<>>
    THEN QualityCheckResult("weather_freshness", "fail", NoValue, NoValue,
                            "No records to check", now)
    ELSE LET age == now - MaxTimestamp(recs)
         IN  IF age < max_age_hours * 60
             THEN QualityCheckResult("weather_freshness", "pass", Some(age),
                                     Some(max_age_hours), "Latest data", now)
             ELSE IF age < max_age_hours * 2 * 60
             THEN QualityCheckResult("weather_freshness", "warn", Some(age),
                                     Some(max_age_hours), "Data is stale", now)
             ELSE QualityCheckResult("weather_freshness", "fail", Some(age),
                                     Some(max_age_hours), "Data is very stale", now)

check_freshness(recs, max_age_hours, now) ==
    IF recs = <<>>
    THEN QualityCheckResult("weather_freshness", "fail", NoValue, NoValue,
                            "No records to check", now)
    ELSE LET age == now - MaxTimestamp(recs)
         IN  IF age <= max_age_hours * 60
             THEN QualityCheckResult("weather_freshness", "pass", Some(age),
                                     Some(max_age_hours), "Latest data", now)
             ELSE IF age <= max_age_hours * 2 * 60
             THEN QualityCheckResult("weather_freshness", "warn", Some(age),
                                     Some(max_age_hours), "Data is stale", now)
             ELSE QualityCheckResult("weather_freshness", "fail", Some(age),
                                     Some(max_age_hours), "Data is very stale", now)

CountOutsideExclusive(values, lo, hi) ==
    Cardinality({k \in 1..Len(values) : ~(lo < values[k] /\ values[k] < hi)})

\* len([x for x in values if not (lo <= x <= hi)])
CountOutside(values, lo, hi) ==
    Cardinality({k \in 1..Len(values) : ~(lo <= values[k] /\ values[k] <= hi)})

MIN_TEMP == -40
MAX_TEMP == 50

\* pct = len(out_of_range) / len(temps) * 100; pct > 5 is out * 100 > 5 * len
check_temperature_range(recs, now) ==
    IF recs = <<>>
    THEN QualityCheckResult("temperature_range", "fail", NoValue, NoValue,
                            "No records to check", now)
    ELSE LET temps == [k \in 1..Len(recs) |-> recs[k].temperature_c]
             out == CountOutside(temps, MIN_TEMP, MAX_TEMP)
         IN  IF out = 0
             THEN QualityCheckResult("temperature_range", "pass", Some(out), Some(0),
                                     "All temperatures within range", now)
             ELSE QualityCheckResult("temperature_range",
                                     IF out * 100 > 5 * Len(temps) THEN "fail" ELSE "warn",
                                     Some(out), Some(0), "temps outside range", now)

Key(r) == <<r.timestamp, r.location>>

\* Every record whose key occurs at another position, first occurrences included
CountDuplicatesAllCopies(recs) ==
    Cardinality({k \in 1..Len(recs) :
                    \E j \in 1..Len(recs) : j # k /\ Key(recs[j]) = Key(recs[k])})

\* The loop of _check_uniqueness: record k counts when its key is in seen, the
\* set of the keys of the records before it
CountDuplicates(recs) ==
    Cardinality({k \in 1..Len(recs) :
                    Key(recs[k]) \in {Key(recs[j]) : j \in 1..(k - 1)}})

\* pct = duplicates / len(records) * 100; pct > 1 is duplicates * 100 > len
check_uniqueness(recs, now) ==
    IF recs = <<>>
    THEN QualityCheckResult("uniqueness", "fail", NoValue, NoValue,
                            "No records to check", now)
    ELSE LET duplicates == CountDuplicates(recs)
         IN  IF duplicates = 0
             THEN QualityCheckResult("uniqueness", "pass", Some(duplicates), Some(0),
                                     "All records are unique", now)
             ELSE QualityCheckResult("uniqueness",
                                     IF duplicates * 100 > Len(recs) THEN "fail" ELSE "warn",
                                     Some(duplicates), Some(0),
                                     "Found duplicate records", now)

\* The keys of by_location (the totals below do not depend on their order)
LocationsOf(recs) == {recs[k].location : k \in 1..Len(recs)}

\* by_location[loc]: the records of loc, in input order
GroupOf(recs, loc) == SelectSeq(recs, LAMBDA r : r.location = loc)

\* list.sort(key=timestamp): ascending and stable (records with equal
\* timestamps keep their input order)
SortByTimestamp(recs) == SortSeq(recs, LAMBDA a, b : a.timestamp < b.timestamp)

GAP_TOLERANCE == 75

\* for i in range(1, len(timestamps)): gap > timedelta(hours=1, minutes=15)
CountGaps(sorted) ==
    Cardinality({i \in 2..Len(sorted) :
                    sorted[i].timestamp - sorted[i - 1].timestamp > GAP_TOLERANCE})

\* total_gaps over the groups of by_location
RECURSIVE TotalGaps(_, _)
TotalGaps(recs, locs) ==
    IF locs = {} THEN 0
    ELSE LET loc == CHOOSE l \in locs : TRUE
         IN  CountGaps(SortByTimestamp(GroupOf(recs, loc)))
             + TotalGaps(recs, locs \ {loc})

NoGapsVerdict(total_gaps, now) ==
    IF total_gaps = 0
    THEN QualityCheckResult("no_gaps", "pass", Some(total_gaps), Some(0),
                            "No gaps detected", now)
    ELSE IF total_gaps <= 3
    THEN QualityCheckResult("no_gaps", "warn", Some(total_gaps), Some(0),
                            "Found gaps", now)
    ELSE QualityCheckResult("no_gaps", "fail", Some(total_gaps), Some(0),
                            "Found gaps (data may be incomplete)", now)

check_no_gaps_ungrouped(recs, now) ==
    IF Len(recs) < 2
    THEN QualityCheckResult("no_gaps", "warn", NoValue, NoValue,
                            "Not enough records to check for gaps", now)
    ELSE NoGapsVerdict(CountGaps(SortByTimestamp(recs)), now)

check_no_gaps(recs, now) ==
    IF Len(recs) < 2
    THEN QualityCheckResult("no_gaps", "warn", NoValue, NoValue,
                            "Not enough records to check for gaps", now)
    ELSE NoGapsVerdict(TotalGaps(recs, LocationsOf(recs)), now)

\* demand_mwh bounds 500 and 15000, in hundredths
MIN_DEMAND == 50000
MAX_DEMAND == 1500000

check_demand_range(recs, now) ==
    IF recs = <<>>
    THEN QualityCheckResult("demand_range", "fail", NoValue, NoValue,
                            "No records to check", now)
    ELSE LET demands == [k \in 1..Len(recs) |-> recs[k].demand_mwh]
             out == CountOutside(demands, MIN_DEMAND, MAX_DEMAND)
         IN  IF out = 0
             THEN QualityCheckResult("demand_range", "pass", Some(out), Some(0),
                                     "All demand values within range", now)
             ELSE QualityCheckResult("demand_range",
                                     IF out * 100 > 5 * Len(demands) THEN "fail" ELSE "warn",
                                     Some(out), Some(0), "demands outside expected range", now)

Abs(x) == IF x < 0 THEN -x ELSE x

MAX_PCT_CHANGE == 50

CountSpikesRisesOnly(sorted) ==
    Cardinality({i \in 2..Len(sorted) :
                    LET prev == sorted[i - 1].demand_mwh
                        curr == sorted[i].demand_mwh
                    IN  prev > 0 /\ (curr - prev) * 100 > MAX_PCT_CHANGE * prev})

CountSpikesFromZero(sorted) ==
    Cardinality({i \in 2..Len(sorted) :
                    LET prev == sorted[i - 1].demand_mwh
                        curr == sorted[i].demand_mwh
                    IN  Abs(curr - prev) * 100 > MAX_PCT_CHANGE * prev})

\* abs(curr - prev) / prev * 100 > max_pct_change, for prev > 0
CountSpikes(sorted) ==
    Cardinality({i \in 2..Len(sorted) :
                    LET prev == sorted[i - 1].demand_mwh
                        curr == sorted[i].demand_mwh
                    IN  prev > 0 /\ Abs(curr - prev) * 100 > MAX_PCT_CHANGE * prev})

RECURSIVE TotalSpikes(_, _)
TotalSpikes(recs, locs) ==
    IF locs = {} THEN 0
    ELSE LET loc == CHOOSE l \in locs : TRUE
         IN  CountSpikes(SortByTimestamp(GroupOf(recs, loc)))
             + TotalSpikes(recs, locs \ {loc})

check_demand_consistency(recs, now) ==
    IF Len(recs) < 2
    THEN QualityCheckResult("demand_consistency", "warn", NoValue, NoValue,
                            "Not enough records to check consistency", now)
    ELSE LET spike_count == TotalSpikes(recs, LocationsOf(recs))
         IN  IF spike_count = 0
             THEN QualityCheckResult("demand_consistency", "pass", Some(spike_count),
                                     Some(0), "Demand changes are consistent", now)
             ELSE IF spike_count <= 5
             THEN QualityCheckResult("demand_consistency", "warn", Some(spike_count),
                                     Some(0), "Found unusual demand changes", now)
             ELSE QualityCheckResult("demand_consistency", "fail", Some(spike_count),
                                     Some(0), "Found unusual demand spikes", now)

\* What a check_* call hands back: the list of verdicts, or an exception if a
\* rule raised
Outcome(verdicts) ==
    IF \E k \in 1..Len(verdicts) : verdicts[k].status = "raised"
    THEN [called |-> TRUE, raised |-> TRUE, verdicts |-> <<>>]
    ELSE [called |-> TRUE, raised |-> FALSE, verdicts |-> verdicts]

MAX_AGE_HOURS == 48

check_weather(recs, now) ==
    Outcome(<<check_completeness(recs, "weather", now),
              check_freshness(recs, MAX_AGE_HOURS, now),
              check_temperature_range(recs, now),
              check_uniqueness(recs, now),
              check_no_gaps(recs, now)>>)

check_energy(recs, now) ==
    Outcome(<<check_completeness(recs, "energy", now),
              check_demand_range(recs, now),
              check_uniqueness(recs, now),
              check_demand_consistency(recs, now)>>)

NotCalled == [called |-> FALSE, raised |-> FALSE, verdicts |-> <<>>]

QualityIdle ==
    /\ data_type = "weather"
    /\ records = <<>>
    /\ appended = 0
    /\ results = NotCalled

\* --------------------------------------------- metrics/definitions.py
\* MetricResult.value is held in hundredths for the MWh metrics (round(x, 2))
\* and in thousandths for ratios and correlations (round(x, 3)).  computed_at
\* (the wall clock) is not modelled.  dimensions is a set of <<key, value>>.

MetricResult(metric_name, value, unit, dims) ==
    [metric_name |-> metric_name, value |-> value, unit |-> unit,
     dimensions |-> dims]

\* An exception leaving a metric function
MetricRaises(metric_name) ==
    [metric_name |-> metric_name, value |-> 0, unit |-> "raised", dimensions |-> {}]

RECURSIVE SumDemand(_, _)
\* sum(r.demand_mwh for r in records), from record k on
SumDemand(recs, k) ==
    IF k > Len(recs) THEN 0 ELSE recs[k].demand_mwh + SumDemand(recs, k + 1)

\* max(r.demand_mwh for r in records), records not empty
MaxDemand(recs) ==
    CHOOSE d \in {recs[k].demand_mwh : k \in 1..Len(recs)} :
        \A k \in 1..Len(recs) : recs[k].demand_mwh <= d

total_demand(recs, dims) ==
    MetricResult("total_demand", SumDemand(recs, 1), "MWh", dims)

peak_demand_last(recs, dims) ==
    IF recs = <<>> THEN MetricResult("peak_demand", 0, "MWh", dims)
    ELSE MetricResult("peak_demand", recs[Len(recs)].demand_mwh, "MWh", dims)

peak_demand(recs, dims) ==
    IF recs = <<>> THEN MetricResult("peak_demand", 0, "MWh", dims)
    ELSE MetricResult("peak_demand", MaxDemand(recs), "MWh", dims)

average_demand_unguarded(recs, dims) ==
    IF recs = <<>> THEN MetricRaises("average_demand")
    ELSE MetricResult("average_demand",
                      RoundHalfEven(SumDemand(recs, 1), 1, Len(recs)), "MWh", dims)

average_demand(recs, dims) ==
    IF recs = <<>> THEN MetricResult("average_demand", 0, "MWh", dims)
    ELSE MetricResult("average_demand",
                      RoundHalfEven(SumDemand(recs, 1), 1, Len(recs)), "MWh", dims)

peak_hour_ratio_unguarded(recs, dims) ==
    IF recs = <<>> THEN MetricResult("peak_hour_ratio", 0, "ratio", dims)
    ELSE LET peak == MaxDemand(recs)
             total == SumDemand(recs, 1)
         IN  IF total = 0 THEN MetricRaises("peak_hour_ratio")
             ELSE MetricResult("peak_hour_ratio",
                               RoundHalfEven(1000 * peak, Len(recs), total),
                               "ratio", dims)

\* peak / avg if avg > 0 else 0, with avg = sum / len: 1000 * peak * len / sum
peak_hour_ratio(recs, dims) ==
    IF recs = <<>> THEN MetricResult("peak_hour_ratio", 0, "ratio", dims)
    ELSE LET peak == MaxDemand(recs)
             total == SumDemand(recs, 1)
         IN  MetricResult("peak_hour_ratio",
                          IF total > 0 THEN RoundHalfEven(1000 * peak, Len(recs), total)
                          ELSE 0,
                          "ratio", dims)

Weekend(recs) == SelectSeq(recs, LAMBDA r : r.is_weekend)
Weekday(recs) == SelectSeq(recs, LAMBDA r : ~r.is_weekend)

weekend_vs_weekday_untagged(recs, dims) ==
    LET weekend == Weekend(recs)
        weekday == Weekday(recs)
    IN  IF weekend = <<>> \/ weekday = <<>>
        THEN MetricResult("weekend_weekday_ratio", 0, "ratio", {})
        ELSE LET sum_we == SumDemand(weekend, 1)
                 sum_wd == SumDemand(weekday, 1)
             IN  MetricResult("weekend_weekday_ratio",
                              IF sum_wd > 0
                              THEN RoundHalfEven(1000 * sum_we, Len(weekday),
                                                 sum_wd * Len(weekend))
                              ELSE 0,
                              "ratio", dims)

\* weekend_avg / weekday_avg if weekday_avg > 0 else 0:
\*   1000 * (sum_we * len_wd) / (sum_wd * len_we)
weekend_vs_weekday(recs, dims) ==
    LET weekend == Weekend(recs)
        weekday == Weekday(recs)
    IN  IF weekend = <<>> \/ weekday = <<>>
        THEN MetricResult("weekend_weekday_ratio", 0, "ratio", dims)
        ELSE LET sum_we == SumDemand(weekend, 1)
                 sum_wd == SumDemand(weekday, 1)
             IN  MetricResult("weekend_weekday_ratio",
                              IF sum_wd > 0
                              THEN RoundHalfEven(1000 * sum_we, Len(weekday),
                                                 sum_wd * Len(weekend))
                              ELSE 0,
                              "ratio", dims)

peak_hour_demand(recs, dims) ==
    LET peak_hours == SelectSeq(recs, LAMBDA r : 17 <= r.hour_of_day /\ r.hour_of_day <= 20)
    IN  IF peak_hours = <<>> THEN MetricResult("peak_hour_demand", 0, "MWh", dims)
        ELSE MetricResult("peak_hour_demand",
                          RoundHalfEven(SumDemand(peak_hours, 1), 1, Len(peak_hours)),
                          "MWh", dims)

overnight_minimum(recs, dims) ==
    LET overnight == SelectSeq(recs, LAMBDA r : 0 <= r.hour_of_day /\ r.hour_of_day <= 5)
    IN  IF overnight = <<>> THEN MetricResult("overnight_minimum", 0, "MWh", dims)
        ELSE MetricResult("overnight_minimum",
                          RoundHalfEven(SumDemand(overnight, 1), 1, Len(overnight)),
                          "MWh", dims)

\* weather_lookup[(timestamp, location)]: the temperature of the last weather
\* record with that key
Lookup(weather, key) ==
    weather[CHOOSE k \in 1..Len(weather) :
               /\ Key(weather[k]) = key
               /\ \A j \in (k + 1)..Len(weather) : Key(weather[j]) # key].temperature_c

HasKey(weather, key) == \E k \in 1..Len(weather) : Key(weather[k]) = key

\* The energy records with a matching weather key, in order
Matched(recs, weather) == SelectSeq(recs, LAMBDA e : HasKey(weather, Key(e)))

RECURSIVE SumOver(_, _, _)
\* sum(f[k] for k in lo..hi)
SumOver(f, lo, hi) == IF lo > hi THEN 0 ELSE f[lo] + SumOver(f, lo + 1, hi)

MIN_PAIRS == 10

RECURSIVE Gcd(_, _)
Gcd(a, b) == IF b = 0 THEN a ELSE Gcd(b, a % b)

RECURSIVE GcdOver(_, _)
\* The greatest common divisor of f[k], f[k + 1], ...
GcdOver(f, k) == IF k > Len(f) THEN 0 ELSE Gcd(f[k], GcdOver(f, k + 1))

\* n * sum_dd - sum_d ** 2 in double arithmetic, when all n demands are one
\* value d (in hundredths) and the exact difference is 0: the sign of what is
\* computed.  A multiple of 0.25 MWh is a binary fraction and every sum and
\* product is exact; 100.1 and 5123.45 are not, and for 10 to 12 records the
\* rounding errors leave a negative and a positive difference respectively.
ConstantVarianceSign(d) ==
    CASE d % 25 = 0 -> 0
      [] d = 10010 -> -1
      [] d = 512345 -> 1

\* Pearson correlation of the paired temperatures and demands, in thousandths.
\* The quotient does not change when every demand is divided by a common
\* divisor, and the sums are taken over the demands so divided.  The square
\* root of the denominator is held in tenths, to the tenth below.
\* A negative product of the two differences gives a complex denominator, and
\* `denominator > 0` raises TypeError; a product that is positive only by
\* rounding error gives a quotient that rounds to 0.
temperature_sensitivity(recs, weather, dims) ==
    LET paired == Matched(recs, weather)
        n == Len(paired)
        temps == [k \in 1..n |-> Lookup(weather, Key(paired[k]))]
        g == GcdOver([k \in 1..n |-> paired[k].demand_mwh], 1)
        demands == [k \in 1..n |-> IF g = 0 THEN 0 ELSE paired[k].demand_mwh \div g]
    IN  IF n < MIN_PAIRS
        THEN MetricResult("temperature_sensitivity", 0, "correlation", dims)
        ELSE LET sum_t == SumOver(temps, 1, n)
                 sum_d == SumOver(demands, 1, n)
                 sum_tt == SumOver([k \in 1..n |-> temps[k] * temps[k]], 1, n)
                 sum_dd == SumOver([k \in 1..n |-> demands[k] * demands[k]], 1, n)
                 sum_td == SumOver([k \in 1..n |-> temps[k] * demands[k]], 1, n)
                 numerator == n * sum_td - sum_t * sum_d
                 var_t == n * sum_tt - sum_t * sum_t
                 var_d == n * sum_dd - sum_d * sum_d
                 denominator == ISqrt(100 * var_t * var_d)
                 magnitude == IF denominator > 0
                              THEN RoundHalfEven(10000, Abs(numerator), denominator)
                              ELSE 0
             IN  IF var_d = 0 /\ var_t > 0
                    /\ ConstantVarianceSign(paired[1].demand_mwh) < 0
                 THEN MetricRaises("temperature_sensitivity")
                 ELSE MetricResult("temperature_sensitivity",
                                   IF numerator < 0 THEN -magnitude ELSE magnitude,
                                   "correlation", dims)

\* What an engine call hands back: the list of results, or an exception
MetricOutcome(values) ==
    IF \E k \in 1..Len(values) : values[k].unit = "raised"
    THEN [called |-> TRUE, raised |-> TRUE, values |-> <<>>]
    ELSE [called |-> TRUE, raised |-> FALSE, values |-> values]

CoreMetrics(recs, dims) ==
    <<total_demand(recs, dims), peak_demand(recs, dims), average_demand(recs, dims),
      peak_hour_ratio(recs, dims), weekend_vs_weekday(recs, dims),
      peak_hour_demand(recs, dims), overnight_minimum(recs, dims)>>

\* compute_all(energy_records, weather_records=None, dimensions=None): an
\* optional argument is <<>> when absent (None) and <<v>> when given.
\* dims = dimensions or {}; `if weather_records:` holds for a non-empty list.
compute_all(recs, weather_arg, dims_arg) ==
    LET dims == IF dims_arg = <<>> THEN {} ELSE dims_arg[1]
    IN  MetricOutcome(
            CoreMetrics(recs, dims)
            \o (IF weather_arg # <<>> /\ weather_arg[1] # <<>>
                THEN <<temperature_sensitivity(recs, weather_arg[1], dims)>>
                ELSE <<>>))

MetricFunctions ==
    {"total_demand", "peak_demand", "average_demand", "peak_hour_ratio",
     "weekend_vs_weekday", "peak_hour_demand", "overnight_minimum"}

\* One of the seven metric functions, called by name
CallFunction(fn, recs, dims) ==
    CASE fn = "total_demand" -> total_demand(recs, dims)
      [] fn = "peak_demand" -> peak_demand(recs, dims)
      [] fn = "average_demand" -> average_demand(recs, dims)
      [] fn = "peak_hour_ratio" -> peak_hour_ratio(recs, dims)
      [] fn = "weekend_vs_weekday" -> weekend_vs_weekday(recs, dims)
      [] fn = "peak_hour_demand" -> peak_hour_demand(recs, dims)
      [] fn = "overnight_minimum" -> overnight_minimum(recs, dims)

NoCall == [fn |-> "none", weather |-> <<>>, dims |-> <<>>]

MetricsIdle ==
    /\ energy_records = <<>>
    /\ call = NoCall
    /\ metric_results = [called |-> FALSE, raised |-> FALSE, values |-> <<>>]

\* ----------------------------------------------------------- storage.py

UpsertKeepingOld(table, r) ==
    IF \E x \in table : Key(x) = Key(r) THEN table ELSE table \cup {r}

\* INSERT OR REPLACE INTO t ... with PRIMARY KEY (timestamp, location)
Upsert(table, r) == {x \in table : Key(x) # Key(r)} \cup {r}

RECURSIVE ExecuteMany(_, _, _)
\* executemany: one INSERT OR REPLACE per record, in order, from record k on
ExecuteMany(table, recs, k) ==
    IF k > Len(recs) THEN table
    ELSE ExecuteMany(Upsert(table, recs[k]), recs, k + 1)

\* save_weather(records) and save_energy(records): the table afterwards
save_records(table, recs) ==
    IF recs = <<>> THEN table ELSE ExecuteMany(table, recs, 1)

DEFAULT_LIMIT == 1000

Min(a, b) == IF a < b THEN a ELSE b

\* SELECT * FROM t [WHERE location = ?] ORDER BY timestamp DESC LIMIT n: every
\* sequence the query may return (rows of one timestamp come in any order).
\* location is <<>> for None and <<loc>> otherwise.
get_records(table, location, limit) ==
    LET rows == IF location = <<>> THEN table
                ELSE {x \in table : x.location = location[1]}
        n == Min(Cardinality(rows), limit)
    IN  {s \in [1..n -> rows] :
            /\ \A i \in 1..n, j \in 1..n : i < j =>
                  (s[i] # s[j] /\ s[i].timestamp >= s[j].timestamp)
            /\ \A x \in rows : (\A i \in 1..n : s[i] # x) =>
                  (\A i \in 1..n : s[i].timestamp >= x.timestamp)}

\* loaded_at TIMESTAMP DEFAULT CURRENT_TIMESTAMP: the wall clock of the insert,
\* which no reader uses
LOADED_AT == 0

\* SELECT * FROM weather: the columns of a row, in schema order
WeatherRow(x) ==
    <<x.timestamp, x.temperature_c, x.humidity_pct, x.wind_speed_kmh,
      x.precipitation_mm, x.cloud_cover_pct, x.location, LOADED_AT>>

\* WeatherRecord(timestamp=row[0], ..., location=row[6])
WeatherFromRow(row) ==
    [timestamp |-> row[1], temperature_c |-> row[2], humidity_pct |-> row[3],
     wind_speed_kmh |-> row[4], precipitation_mm |-> row[5],
     cloud_cover_pct |-> row[6], location |-> row[7]]

\* SELECT * FROM energy: the columns of a row, in schema order
EnergyRow(x) ==
    <<x.timestamp, x.demand_mwh, x.temperature_c, x.is_weekend, x.hour_of_day,
      x.location, LOADED_AT>>

\* EnergyRecord(timestamp=row[0], ..., location=row[5])
EnergyFromRow(row) ==
    [timestamp |-> row[1], demand_mwh |-> row[2], temperature_c |-> row[3],
     is_weekend |-> row[4], hour_of_day |-> row[5], location |-> row[6]]

\* get_weather(location, limit): every list the call may return
get_weather(table, location, limit) ==
    {[k \in 1..Len(s) |-> WeatherFromRow(WeatherRow(s[k]))] :
        s \in get_records(table, location, limit)}

\* get_energy(location, limit): every list the call may return
get_energy(table, location, limit) ==
    {[k \in 1..Len(s) |-> EnergyFromRow(EnergyRow(s[k]))] :
        s \in get_records(table, location, limit)}

\* The keys a caller saves under: <<timestamp, location>>
StoreKeys == {0, 60} \X {"new_york", "chicago"}

\* After save_*(recs): the record most recently saved under each key is the
\* last record of recs with that key, or the earlier one if recs has none;
\* saves counts the records saved under the key so far
SavedLast(last, recs) ==
    [key \in StoreKeys |->
        LET at == {j \in 1..Len(recs) : Key(recs[j]) = key}
            before == IF last[key] = <<>> THEN 0 ELSE last[key][1].saves
        IN  IF at = {} THEN last[key]
            ELSE <<[record |-> recs[CHOOSE j \in at : \A h \in at : h <= j],
                    saves |-> before + Cardinality(at)]>>]

NothingSaved == [key \in StoreKeys |-> <<>>]

NotFetched ==
    [called |-> FALSE, table |-> "none", location |-> <<>>, limit |-> 0,
     records |-> <<>>]

RECURSIVE InsertChecks(_, _, _)
\* save_quality_results: one INSERT per verdict, check_id from the sequence
InsertChecks(rows, verdicts, k) ==
    IF k > Len(verdicts) THEN rows
    ELSE InsertChecks(
             Append(rows, [check_id |-> Len(rows) + 1,
                           check_name |-> verdicts[k].check_name,
                           status |-> verdicts[k].status,
                           metric_value |-> verdicts[k].metric_value,
                           threshold |-> verdicts[k].threshold,
                           message |-> verdicts[k].message,
                           checked_at |-> verdicts[k].checked_at]),
             verdicts, k + 1)

save_quality_results(rows, verdicts) ==
    IF verdicts = <<>> THEN rows ELSE InsertChecks(rows, verdicts, 1)

\* dims_str = str(r.dimensions) if r.dimensions else "{}"
DimsStr(dims) == IF dims = {} THEN "{}" ELSE [str |-> dims]

RECURSIVE InsertMetrics(_, _, _)
\* save_metrics: one INSERT per result, metric_id from the sequence
InsertMetrics(rows, values, k) ==
    IF k > Len(values) THEN rows
    ELSE InsertMetrics(
             Append(rows, [metric_id |-> Len(rows) + 1,
                           metric_name |-> values[k].metric_name,
                           value |-> values[k].value,
                           unit |-> values[k].unit,
                           dimensions |-> DimsStr(values[k].dimensions)]),
             values, k + 1)

save_metrics(rows, values) ==
    IF values = <<>> THEN rows ELSE InsertMetrics(rows, values, 1)

NextCommandSkippingQuality(command) ==
    CASE command = "ingest" -> "metrics"
      [] command = "quality" -> "metrics"
      [] command = "metrics" -> "done"

\* run: ingest(...), then quality(...), then metrics(...), then the closing
\* messages
NextCommand(command) ==
    CASE command = "ingest" -> "quality"
      [] command = "quality" -> "metrics"
      [] command = "metrics" -> "done"

NotRunning == [pc |-> "idle", location |-> "", weather |-> <<>>, energy |-> <<>>]

StoreIdle ==
    /\ weather_table = {}
    /\ energy_table = {}
    /\ quality_checks = <<>>
    /\ all_results = <<>>
    /\ stages = <<>>
    /\ last_saved = [weather |-> NothingSaved, energy |-> NothingSaved]
    /\ fetched = NotFetched
    /\ metrics_table = <<>>
    /\ run = NotRunning

\* ---------------------------------------------- the simulator as a machine

Sims == {"a", "b"}

Seeds == {7, 42}

\* EnergySimulator(seed): seed is an int, or None (seeded from the OS, held as
\* seeded = FALSE).  The callers modelled here (cli.py ingest, the tests) all
\* pass a seed.
SeedArgs == [seeded : {TRUE}, seed : Seeds]

\* The weather observations the simulator is fed: a weekday noon in the comfort
\* band, a cold Saturday evening in a city without a base load entry, a hot
\* Sunday night, and the evening peak of the weekday noon's date.
SimWeather ==
    {WeatherRecord(Minute(0, 12), 20, "new_york"),
     WeatherRecord(Minute(5, 18), -10, "springfield"),
     WeatherRecord(Minute(6, 3), 30, "new_york"),
     WeatherRecord(Minute(0, 18), 20, "new_york")}

\* self._rng = random.Random(seed)
NewRngUnseeded(arg) == [seeded |-> FALSE, seed |-> 0, pos |-> 0]

NewRng(arg) == [seeded |-> arg.seeded, seed |-> arg.seed, pos |-> 0]

\* An instance: the seed argument it was constructed with, self._rng, and the
\* locals of the simulate_from_weather call in progress.
Absent == [state |-> "absent", arg |-> [seeded |-> FALSE, seed |-> 0],
           rng |-> [seeded |-> FALSE, seed |-> 0, pos |-> 0],
           input |-> <<>>, energy_records |-> <<>>]

\* The record built in the loop body of simulate_from_weather
SimRecordSundayOnly(weather, noise) ==
    EnergyRecord(weather.timestamp, calculate_demand(weather, noise),
                 weather.temperature_c, WeekdayOf(weather.timestamp) > 5,
                 HourOf(weather.timestamp), weather.location)

SimRecord(weather, noise) ==
    EnergyRecord(weather.timestamp, calculate_demand(weather, noise),
                 weather.temperature_c, IsWeekend(weather.timestamp),
                 HourOf(weather.timestamp), weather.location)

SimIdle ==
    /\ weather_records = <<>>
    /\ sims = [i \in Sims |-> Absent]
    /\ tape = [s \in Seeds |-> <<>>]
    /\ history = [i \in Sims |-> <<>>]

SimInit ==
    /\ SimIdle
    /\ QualityIdle
    /\ MetricsIdle
    /\ StoreIdle
    /\ ModelsIdle
    /\ ClientIdle
    /\ DemandIdle

\* ingest: one more observation in the list the simulator will be given
Fetch(r) ==
    /\ \A i \in Sims : sims[i].state = "absent"
    /\ Len(weather_records) < MaxInput
    /\ weather_records' = Append(weather_records, r)
    /\ UNCHANGED <<sims, tape, history, qualityVars, metricVars, storeVars, modelVars, clientVars, demandVars>>

\* EnergySimulator.__init__
Construct(i, arg) ==
    /\ sims[i].state = "absent"
    /\ sims' = [sims EXCEPT ![i] = [Absent EXCEPT !.state = "idle", !.arg = arg,
                                                 !.rng = NewRng(arg)]]
    /\ UNCHANGED <<weather_records, tape, history, qualityVars, metricVars, storeVars, modelVars, clientVars, demandVars>>

RECURSIVE CallsOf(_)
CallsOf(S) ==
    IF S = {} THEN 0
    ELSE LET i == CHOOSE x \in S : TRUE
         IN  Len(history[i]) + (IF sims[i].state = "running" THEN 1 ELSE 0)
             + CallsOf(S \ {i})

BeginSimulateReseeding(i, lo, hi) ==
    /\ sims[i].state = "idle"
    /\ CallsOf(Sims) < MaxCalls
    /\ sims' = [sims EXCEPT ![i].state = "running",
                            ![i].rng.pos = 0,
                            ![i].input = SubSeq(weather_records, lo, hi),
                            ![i].energy_records = <<>>]
    /\ UNCHANGED <<weather_records, tape, history, qualityVars, metricVars, storeVars, modelVars, clientVars, demandVars>>

\* simulate_from_weather is entered with records lo..hi of the fetched list
\* (the whole list, a part of it, or the empty list): energy_records = []
BeginSimulate(i, lo, hi) ==
    /\ sims[i].state = "idle"
    /\ CallsOf(Sims) < MaxCalls
    /\ sims' = [sims EXCEPT ![i].state = "running",
                            ![i].input = SubSeq(weather_records, lo, hi),
                            ![i].energy_records = <<>>]
    /\ UNCHANGED <<weather_records, tape, history, qualityVars, metricVars, storeVars, modelVars, clientVars, demandVars>>

GaussShared(i, noise) ==
    LET rng == sims["a"].rng
    IN  IF ~rng.seeded THEN UNCHANGED tape
        ELSE IF rng.pos < Len(tape[rng.seed])
             THEN noise = tape[rng.seed][rng.pos + 1] /\ UNCHANGED tape
             ELSE tape' = [tape EXCEPT ![rng.seed] = Append(@, noise)]

\* self._rng.gauss(1.0, 0.05): the next value of the instance's generator.  A
\* generator seeded with s yields the s-stream, whose values are fixed once
\* produced; an unseeded generator yields any value.
Gauss(i, noise) ==
    LET rng == sims[i].rng
    IN  IF ~rng.seeded THEN UNCHANGED tape
        ELSE IF rng.pos < Len(tape[rng.seed])
             THEN noise = tape[rng.seed][rng.pos + 1] /\ UNCHANGED tape
             ELSE tape' = [tape EXCEPT ![rng.seed] = Append(@, noise)]

\* one iteration of the loop over weather_records
StepSimulate(i) ==
    /\ sims[i].state = "running"
    /\ Len(sims[i].energy_records) < Len(sims[i].input)
    /\ \E noise \in NoiseVals :
          /\ Gauss(i, noise)
          /\ sims' = [sims EXCEPT
                 ![i].rng.pos = @ + 1,
                 ![i].energy_records =
                     Append(@, SimRecord(sims[i].input[Len(@) + 1], noise))]
    /\ UNCHANGED <<weather_records, history, qualityVars, metricVars, storeVars, modelVars, clientVars, demandVars>>

\* return energy_records
ReturnSimulate(i) ==
    /\ sims[i].state = "running"
    /\ Len(sims[i].energy_records) = Len(sims[i].input)
    /\ history' = [history EXCEPT ![i] =
           Append(@, [input |-> sims[i].input, output |-> sims[i].energy_records])]
    /\ sims' = [sims EXCEPT ![i].state = "idle"]
    /\ UNCHANGED <<weather_records, tape, qualityVars, metricVars, storeVars, modelVars, clientVars, demandVars>>

SimNext ==
    \/ \E r \in SimWeather : Fetch(r)
    \/ \E i \in Sims, arg \in SeedArgs : Construct(i, arg)
    \/ \E i \in Sims, lo \in 1..(Len(weather_records) + 1) :
          \E hi \in (lo - 1)..Len(weather_records) :
             /\ (hi = lo - 1) => (lo = 1)
             /\ BeginSimulate(i, lo, hi)
    \/ \E i \in Sims : StepSimulate(i)
    \/ \E i \in Sims : ReturnSimulate(i)

SpecSim == SimInit /\ [][SimNext]_vars

\* ------------------------------------------ the quality checker as a machine

\* Series lengths: every length up to MaxSeries, and the bulk sizes at which
\* one or two records are at, under or over one percent of the input
SeriesSizes == (1..MaxSeries) \cup {99, 100}

\* Minutes between the records of a series: all at one instant, hourly, at the
\* 1h15m tolerance, beyond it
SeriesSteps == {0, 60, 75, 90}

\* The instants datetime.now() returns during a check
Nows == {Minute(2, 0), Minute(4, 1)}

\* sample_weather: one location, temperature 20.0 + i % 10
WeatherSeries(n, step) ==
    [k \in 1..n |-> WeatherRecord((k - 1) * step, 20 + ((k - 1) % 10), "new_york")]

\* sample_energy: one location, demand 5000.0 + (i % 24) * 100
EnergySeries(n, step) ==
    [k \in 1..n |->
        EnergyRecord((k - 1) * step, (5000 + ((k - 1) % 24) * 100) * 100, 20,
                     IsWeekend((k - 1) * step), HourOf((k - 1) * step), "new_york")]

\* Single records: a key of the series or a later instant, either location, a
\* temperature inside, at a bound of, or outside [-40, 50]
ExtraWeather ==
    {WeatherRecord(ts, temp, loc) :
        ts \in {60, 1000}, temp \in {-40, 20, 50, 55}, loc \in {"new_york", "chicago"}}

\* Single records: demand 0, 500 (the lower bound), 5100 or 15000.01 MWh
ExtraEnergy ==
    {EnergyRecord(ts, demand, 20, IsWeekend(ts), HourOf(ts), loc) :
        ts \in {60, 1000}, demand \in {0, 50000, 510000, 1500001},
        loc \in {"new_york", "chicago"}}

\* An hourly series of one location whose demand swings between 5000 and
\* 10000 MWh: each rise is +100%, each fall is -50%
SwingSeries(n) ==
    [k \in 1..n |->
        EnergyRecord((k - 1) * 60, IF k % 2 = 1 THEN 500000 ELSE 1000000, 20,
                     IsWeekend((k - 1) * 60), HourOf((k - 1) * 60), "new_york")]

QualityInit ==
    /\ SimIdle
    /\ MetricsIdle
    /\ StoreIdle
    /\ ModelsIdle
    /\ ClientIdle
    /\ DemandIdle
    /\ data_type \in {"weather", "energy"}
    /\ records = <<>>
    /\ appended = 0
    /\ results = NotCalled

\* The caller builds its list: a series of n records
LoadSeries(n, step) ==
    /\ records = <<>> /\ appended = 0 /\ ~results.called
    /\ records' = IF data_type = "weather" THEN WeatherSeries(n, step)
                  ELSE EnergySeries(n, step)
    /\ UNCHANGED <<data_type, appended, results, simVars, metricVars, storeVars, modelVars, clientVars, demandVars>>

\* The caller builds its list: a swinging energy series of n records
LoadSwings(n) ==
    /\ data_type = "energy"
    /\ records = <<>> /\ appended = 0 /\ ~results.called
    /\ records' = SwingSeries(n)
    /\ UNCHANGED <<data_type, appended, results, simVars, metricVars, storeVars, modelVars, clientVars, demandVars>>

\* The caller builds its list: one more record
AppendRecord(r) ==
    /\ appended < MaxExtra /\ ~results.called
    /\ records' = Append(records, r)
    /\ appended' = appended + 1
    /\ UNCHANGED <<data_type, results, simVars, metricVars, storeVars, modelVars, clientVars, demandVars>>

\* QualityChecker.check_weather(records)
CheckWeather(now) ==
    /\ data_type = "weather" /\ ~results.called
    /\ results' = check_weather(records, now)
    /\ UNCHANGED <<data_type, records, appended, simVars, metricVars, storeVars, modelVars, clientVars, demandVars>>

\* QualityChecker.check_energy(records)
CheckEnergy(now) ==
    /\ data_type = "energy" /\ ~results.called
    /\ results' = check_energy(records, now)
    /\ UNCHANGED <<data_type, records, appended, simVars, metricVars, storeVars, modelVars, clientVars, demandVars>>

QualityNext ==
    \/ \E n \in SeriesSizes, step \in SeriesSteps : LoadSeries(n, step)
    \/ \E n \in 1..MaxSeries : LoadSwings(n)
    \/ \E r \in (IF data_type = "weather" THEN ExtraWeather ELSE ExtraEnergy) :
          AppendRecord(r)
    \/ \E now \in Nows : CheckWeather(now)
    \/ \E now \in Nows : CheckEnergy(now)

SpecQuality == QualityInit /\ [][QualityNext]_vars

\* ------------------------------------------- the metrics engine as a machine

\* The energy records the engine is given: demands 0, 100 and 130 MWh on a
\* weekday noon, a weekday evening and a Saturday night
MetricEnergy ==
    {EnergyRecord(ts, demand, 20, IsWeekend(ts), HourOf(ts), "new_york") :
        ts \in {Minute(0, 12), Minute(0, 18), Minute(5, 3)},
        demand \in {0, 10000, 13000}}

\* sample_energy: the first n hours of a day of the fixture's week, base
\* 5000 MWh, x 1.3 in the hours 17 to 20, x 0.7 in the hours 0 to 5, x 0.8 on
\* the weekend
SampleEnergy(day, n) ==
    [k \in 1..n |->
        LET hour == k - 1
            by_hour == IF 17 <= hour /\ hour <= 20 THEN 650000
                       ELSE IF hour <= 5 THEN 350000 ELSE 500000
        IN  EnergyRecord(Minute(day, hour),
                         IF day >= 5 THEN (by_hour * 8) \div 10 ELSE by_hour,
                         20, day >= 5, hour, "new_york")]

\* n hourly records of one demand
FlatEnergy(n, demand) ==
    [k \in 1..n |-> EnergyRecord(Minute(0, k - 1), demand, 20, FALSE, k - 1, "new_york")]

\* The demands of a flat series: 100.1, 5000 and 5123.45 MWh
FlatDemands == {10010, 500000, 512345}

\* The lengths of the hourly series, around the 10 pairs a correlation needs,
\* and a whole day
HourCounts == {MIN_PAIRS - 1, MIN_PAIRS, MIN_PAIRS + 1, 24}

\* n hourly observations from Monday 00:00, at 20 + i % 10 degrees or all at 20
HourlyWeather(n, varying) ==
    [k \in 1..n |->
        WeatherRecord(Minute(0, k - 1), IF varying THEN 20 + ((k - 1) % 10) ELSE 20,
                      "new_york")]

\* The weather argument: absent, the empty list, observations for two of the
\* instants above, or an hourly series
WeatherArgs ==
    {<<>>, <<(<<>>)>>,
     <<(<<WeatherRecord(Minute(0, 12), 20, "new_york"),
          WeatherRecord(Minute(0, 18), 25, "new_york")>>)>>}
    \cup {<<HourlyWeather(n, varying)>> :
             n \in {MIN_PAIRS - 1, MIN_PAIRS + 2}, varying \in BOOLEAN}

\* The dimensions argument: absent, the empty mapping, one tag
DimsArgs == {<<>>, <<{}>>, <<{<<"location", "new_york">>}>>}

MetricsInit ==
    /\ SimIdle
    /\ QualityIdle
    /\ MetricsIdle
    /\ StoreIdle
    /\ ModelsIdle
    /\ ClientIdle
    /\ DemandIdle

\* The caller builds its list: one more energy record
AddEnergy(r) ==
    /\ ~metric_results.called
    /\ Len(energy_records) < MaxEnergy
    /\ energy_records' = Append(energy_records, r)
    /\ UNCHANGED <<call, metric_results, simVars, qualityVars, storeVars, modelVars, clientVars, demandVars>>

\* The caller's list is an hourly series
LoadHours(series) ==
    /\ ~metric_results.called
    /\ energy_records = <<>>
    /\ energy_records' = series
    /\ UNCHANGED <<call, metric_results, simVars, qualityVars, storeVars, modelVars, clientVars, demandVars>>

\* MetricsEngine.compute_all(energy_records, weather_records, dimensions)
ComputeAll(weather_arg, dims_arg) ==
    /\ ~metric_results.called
    /\ call' = [fn |-> "compute_all", weather |-> weather_arg, dims |-> dims_arg]
    /\ metric_results' = compute_all(energy_records, weather_arg, dims_arg)
    /\ UNCHANGED <<energy_records, simVars, qualityVars, storeVars, modelVars, clientVars, demandVars>>

\* MetricsEngine.<fn>(records, dims), one of the seven metric functions
CallMetric(fn, dims) ==
    /\ ~metric_results.called
    /\ call' = [fn |-> fn, weather |-> <<>>, dims |-> <<dims>>]
    /\ metric_results' = MetricOutcome(<<CallFunction(fn, energy_records, dims)>>)
    /\ UNCHANGED <<energy_records, simVars, qualityVars, storeVars, modelVars, clientVars, demandVars>>

\* MetricsEngine.temperature_sensitivity(energy_records, weather_records, dims)
CallSensitivity(weather, dims) ==
    /\ ~metric_results.called
    /\ call' = [fn |-> "temperature_sensitivity", weather |-> <<weather>>,
                dims |-> <<dims>>]
    /\ metric_results' =
           MetricOutcome(<<temperature_sensitivity(energy_records, weather, dims)>>)
    /\ UNCHANGED <<energy_records, simVars, qualityVars, storeVars, modelVars, clientVars, demandVars>>

MetricsNext ==
    \/ \E r \in MetricEnergy : AddEnergy(r)
    \/ \E day \in {0, 5}, n \in HourCounts : LoadHours(SampleEnergy(day, n))
    \/ \E n \in HourCounts \ {24}, demand \in FlatDemands :
          LoadHours(FlatEnergy(n, demand))
    \/ \E w \in WeatherArgs, d \in DimsArgs : ComputeAll(w, d)
    \/ \E fn \in MetricFunctions, d \in DimsArgs \ {<<>>} : CallMetric(fn, d[1])
    \/ \E w \in WeatherArgs \ {<<>>}, d \in DimsArgs \ {<<>>} :
          CallSensitivity(w[1], d[1])

SpecMetrics == MetricsInit /\ [][MetricsNext]_vars

\* ------------------------------------------ the store and the commands

\* The records saved: two instants, two locations, two readings each
StoreWeather ==
    {WeatherRecord(ts, temp, loc) :
        ts \in {0, 60}, temp \in {20, 25}, loc \in {"new_york", "chicago"}}

StoreEnergy ==
    {EnergyRecord(ts, demand, 20, IsWeekend(ts), HourOf(ts), loc) :
        ts \in {0, 60}, demand \in {510000, 520000}, loc \in {"new_york", "chicago"}}

\* The record lists of one save call: up to two records
Batches(S) == {<<>>} \cup {<<r>> : r \in S} \cup {<<r, q>> : r \in S, q \in S}

StoreInit ==
    /\ SimIdle
    /\ QualityIdle
    /\ MetricsIdle
    /\ StoreIdle
    /\ ModelsIdle
    /\ ClientIdle
    /\ DemandIdle

\* Storage.save_weather(records)
SaveWeather(recs) ==
    /\ Len(stages) < MaxStages
    /\ weather_table' = save_records(weather_table, recs)
    /\ last_saved' = [last_saved EXCEPT !.weather = SavedLast(@, recs)]
    /\ stages' = Append(stages, "save_weather")
    /\ UNCHANGED <<energy_table, quality_checks, all_results, fetched, metrics_table, run,
                   simVars, qualityVars, metricVars, modelVars, clientVars, demandVars>>

\* Storage.save_energy(records)
SaveEnergy(recs) ==
    /\ Len(stages) < MaxStages
    /\ energy_table' = save_records(energy_table, recs)
    /\ last_saved' = [last_saved EXCEPT !.energy = SavedLast(@, recs)]
    /\ stages' = Append(stages, "save_energy")
    /\ UNCHANGED <<weather_table, quality_checks, all_results, fetched, metrics_table, run,
                   simVars, qualityVars, metricVars, modelVars, clientVars, demandVars>>

\* cli.quality: read both tables, run both checks, persist all verdicts
QualityCommand(now) ==
    /\ Len(stages) < MaxStages
    /\ \E weather \in get_weather(weather_table, NoValue, DEFAULT_LIMIT),
          energy \in get_energy(energy_table, NoValue, DEFAULT_LIMIT) :
          LET weather_results == check_weather(weather, now)
              energy_results == check_energy(energy, now)
          IN  IF weather_results.raised \/ energy_results.raised
              THEN UNCHANGED <<all_results, quality_checks>>
              ELSE /\ all_results' = weather_results.verdicts \o energy_results.verdicts
                   /\ quality_checks' = save_quality_results(quality_checks, all_results')
    /\ stages' = Append(stages, "quality")
    /\ UNCHANGED <<weather_table, energy_table, last_saved, fetched, metrics_table, run,
                   simVars, qualityVars, metricVars, modelVars, clientVars, demandVars>>

\* The arguments of a get call: no location or one, the default limit or 1
GetLocations == {NoValue, <<"new_york">>}

GetLimits == {1, DEFAULT_LIMIT}

\* Storage.get_weather(location, limit)
GetWeather(location, limit) ==
    /\ Len(stages) < MaxStages
    /\ \E recs \in get_weather(weather_table, location, limit) :
          fetched' = [called |-> TRUE, table |-> "weather", location |-> location,
                      limit |-> limit, records |-> recs]
    /\ stages' = Append(stages, "get_weather")
    /\ UNCHANGED <<weather_table, energy_table, quality_checks, all_results,
                   last_saved, metrics_table, run, simVars, qualityVars, metricVars, modelVars, clientVars, demandVars>>

\* Storage.get_energy(location, limit)
GetEnergy(location, limit) ==
    /\ Len(stages) < MaxStages
    /\ \E recs \in get_energy(energy_table, location, limit) :
          fetched' = [called |-> TRUE, table |-> "energy", location |-> location,
                      limit |-> limit, records |-> recs]
    /\ stages' = Append(stages, "get_energy")
    /\ UNCHANGED <<weather_table, energy_table, quality_checks, all_results,
                   last_saved, metrics_table, run, simVars, qualityVars, metricVars, modelVars, clientVars, demandVars>>

StoreNext ==
    \/ \E recs \in Batches(StoreWeather) : SaveWeather(recs)
    \/ \E recs \in Batches(StoreEnergy) : SaveEnergy(recs)
    \/ \E now \in Nows : QualityCommand(now)
    \/ \E location \in GetLocations, limit \in GetLimits : GetWeather(location, limit)
    \/ \E location \in GetLocations, limit \in GetLimits : GetEnergy(location, limit)

SpecStore == StoreInit /\ [][StoreNext]_vars

\* ------------------------------------------------- the run command

\* The locations run is given
RunLocations == {"new_york", "chicago"}

\* What fetch_historical(location, ...) returns: up to two observations of the
\* location
RunWeather(location) == Batches({r \in StoreWeather : r.location = location})

\* simulator.simulate_from_weather(weather_records), one draw per record
Simulated(weather, noises) ==
    [k \in 1..Len(weather) |-> SimRecord(weather[k], noises[k])]

RunInit ==
    /\ SimIdle
    /\ QualityIdle
    /\ MetricsIdle
    /\ StoreIdle
    /\ ModelsIdle
    /\ ClientIdle
    /\ DemandIdle

\* run(location, days, db_path) is entered and calls ingest
StartRun(location) ==
    /\ run.pc = "idle"
    /\ run' = [run EXCEPT !.pc = "fetch", !.location = location]
    /\ UNCHANGED <<weather_table, energy_table, quality_checks, all_results, stages,
                   last_saved, fetched, metrics_table,
                   simVars, qualityVars, metricVars, modelVars, clientVars, demandVars>>

\* ingest: client.fetch_historical and simulator.simulate_from_weather
IngestFetch(weather, noises) ==
    /\ run.pc = "fetch"
    /\ run' = [run EXCEPT !.pc = "save_weather", !.weather = weather,
                          !.energy = Simulated(weather, noises)]
    /\ UNCHANGED <<weather_table, energy_table, quality_checks, all_results, stages,
                   last_saved, fetched, metrics_table,
                   simVars, qualityVars, metricVars, modelVars, clientVars, demandVars>>

\* ingest: fetch_historical raises (response.raise_for_status, a timeout) and
\* the exception leaves run
IngestFetchFails ==
    /\ run.pc = "fetch"
    /\ run' = [run EXCEPT !.pc = "failed"]
    /\ UNCHANGED <<weather_table, energy_table, quality_checks, all_results, stages,
                   last_saved, fetched, metrics_table,
                   simVars, qualityVars, metricVars, modelVars, clientVars, demandVars>>

\* ingest: storage.save_weather(weather_records)
IngestSaveWeather ==
    /\ run.pc = "save_weather"
    /\ weather_table' = save_records(weather_table, run.weather)
    /\ last_saved' = [last_saved EXCEPT !.weather = SavedLast(@, run.weather)]
    /\ stages' = Append(stages, "save_weather")
    /\ run' = [run EXCEPT !.pc = "save_energy"]
    /\ UNCHANGED <<energy_table, quality_checks, all_results, fetched, metrics_table,
                   simVars, qualityVars, metricVars, modelVars, clientVars, demandVars>>

\* ingest: storage.save_energy(energy_records); ingest returns to run
IngestSaveEnergy ==
    /\ run.pc = "save_energy"
    /\ energy_table' = save_records(energy_table, run.energy)
    /\ last_saved' = [last_saved EXCEPT !.energy = SavedLast(@, run.energy)]
    /\ stages' = Append(stages, "save_energy")
    /\ run' = [run EXCEPT !.pc = NextCommand("ingest")]
    /\ UNCHANGED <<weather_table, quality_checks, all_results, fetched, metrics_table,
                   simVars, qualityVars, metricVars, modelVars, clientVars, demandVars>>

\* run calls quality(db_path): read both tables, check, persist the verdicts
RunQuality(now) ==
    /\ run.pc = "quality"
    /\ \E weather \in get_weather(weather_table, NoValue, DEFAULT_LIMIT),
          energy \in get_energy(energy_table, NoValue, DEFAULT_LIMIT) :
          LET weather_results == check_weather(weather, now)
              energy_results == check_energy(energy, now)
          IN  IF weather_results.raised \/ energy_results.raised
              THEN /\ UNCHANGED <<all_results, quality_checks, stages>>
                   /\ run' = [run EXCEPT !.pc = "failed"]
              ELSE /\ all_results' = weather_results.verdicts \o energy_results.verdicts
                   /\ quality_checks' = save_quality_results(quality_checks, all_results')
                   /\ stages' = Append(stages, "quality")
                   /\ run' = [run EXCEPT !.pc = NextCommand("quality")]
    /\ UNCHANGED <<weather_table, energy_table, last_saved, fetched, metrics_table,
                   simVars, qualityVars, metricVars, modelVars, clientVars, demandVars>>

\* run calls metrics(location, db_path): read both tables for the location,
\* compute, persist the results
RunMetrics ==
    /\ run.pc = "metrics"
    /\ \E weather \in get_weather(weather_table, <<run.location>>, DEFAULT_LIMIT),
          energy \in get_energy(energy_table, <<run.location>>, DEFAULT_LIMIT) :
          LET dims == {<<"location", run.location>>}
              computed == compute_all(energy, <<weather>>, <<dims>>)
          IN  IF computed.raised
              THEN /\ UNCHANGED <<metrics_table, stages>>
                   /\ run' = [run EXCEPT !.pc = "failed"]
              ELSE /\ metrics_table' = save_metrics(metrics_table, computed.values)
                   /\ stages' = Append(stages, "metrics")
                   /\ run' = [run EXCEPT !.pc = NextCommand("metrics")]
    /\ UNCHANGED <<weather_table, energy_table, quality_checks, all_results,
                   last_saved, fetched,
                   simVars, qualityVars, metricVars, modelVars, clientVars, demandVars>>

RunNext ==
    \/ \E location \in RunLocations : StartRun(location)
    \/ \E weather \in RunWeather(run.location) :
          \E noises \in [1..Len(weather) -> NoiseVals] : IngestFetch(weather, noises)
    \/ IngestFetchFails
    \/ IngestSaveWeather
    \/ IngestSaveEnergy
    \/ \E now \in Nows : RunQuality(now)
    \/ RunMetrics

SpecRun == RunInit /\ [][RunNext]_vars

\* ------------------------------------------- parsing a response

\* The time arrays of a response: up to two entries, each a valid instant, a
\* string that is not an ISO date, or null
TimeEntries ==
    {[kind |-> "iso", t |-> 0], [kind |-> "iso", t |-> 60],
     [kind |-> "invalid", t |-> 0], [kind |-> "null", t |-> 0]}

TimeArrays ==
    {[kind |-> "absent", values |-> <<>>], [kind |-> "null", values |-> <<>>]}
    \cup {[kind |-> "array", values |-> v] :
             v \in {<<>>} \cup {<<a>> : a \in TimeEntries}
                   \cup {<<a, b>> : a \in TimeEntries, b \in TimeEntries}}

\* A field array of the given elements
ArrayOf(values) == [kind |-> "array", values |-> values]

\* temperature_2m: missing, null, or an array of up to two elements that are
\* null, in range or out of range
TemperatureArrays ==
    {[kind |-> "absent", values |-> <<>>], [kind |-> "null", values |-> <<>>]}
    \cup {ArrayOf(v) :
             v \in {<<>>} \cup {<<a>> : a \in {<<>>, <<20>>, <<61>>}}
                   \cup {<<a, b>> : a \in {<<>>, <<20>>, <<61>>},
                                    b \in {<<>>, <<20>>, <<61>>}}}

\* The other four fields: complete, or with one defect each
HumidityArrays ==
    {[kind |-> "absent", values |-> <<>>], ArrayOf(<<(<<50>>), (<<50>>)>>),
     ArrayOf(<<(<<50>>), (<<>>)>>)}

WindArrays == {ArrayOf(<<(<<10>>), (<<10>>)>>), ArrayOf(<<(<<10>>)>>)}

PrecipitationArrays ==
    {[kind |-> "null", values |-> <<>>], ArrayOf(<<(<<0>>), (<<0>>)>>)}

CloudArrays == {ArrayOf(<<(<<30>>), (<<30>>)>>), ArrayOf(<<(<<30>>), (<<101>>)>>)}

\* The decoded responses: without "hourly", with a null "hourly", or with an
\* hourly object of the arrays above
Responses ==
    {[hourly |-> [kind |-> "absent"]], [hourly |-> [kind |-> "null"]]}
    \cup {[hourly |-> [kind |-> "object",
                       value |-> [time |-> t, temperature_2m |-> a,
                                  relative_humidity_2m |-> b, wind_speed_10m |-> c,
                                  precipitation |-> e, cloud_cover |-> f]]] :
             t \in TimeArrays, a \in TemperatureArrays, b \in HumidityArrays,
             c \in WindArrays, e \in PrecipitationArrays, f \in CloudArrays}

ParseInit ==
    /\ SimIdle
    /\ QualityIdle
    /\ MetricsIdle
    /\ StoreIdle
    /\ ModelsIdle
    /\ DemandIdle
    /\ response \in Responses
    /\ parsed = NotParsed
    /\ chunks = NoChunks

\* WeatherClient._parse_response(data, location)
ParseResponse ==
    /\ ~parsed.called
    /\ parsed' = parse_response(response, "new_york")
    /\ UNCHANGED <<response, chunks, simVars, qualityVars, metricVars, storeVars,
                   modelVars, demandVars>>

ParseNext == ParseResponse

SpecParse == ParseInit /\ [][ParseNext]_vars

\* ------------------------------------------- fetching in chunks

\* start_date: midnight or noon of the first day
StartTimes == {0, 1}

\* end_date - start_date, in half days: from nothing to a little over two
\* default chunks
Spans == 0..Days(2 * CHUNK_DAYS + 5)

\* chunk_days: the default and a short chunk
ChunkDays == {2, CHUNK_DAYS}

ChunksInit ==
    /\ SimIdle
    /\ QualityIdle
    /\ MetricsIdle
    /\ StoreIdle
    /\ ModelsIdle
    /\ DemandIdle
    /\ response = NoResponse
    /\ parsed = NotParsed
    /\ \E start \in StartTimes, span \in Spans, days \in ChunkDays :
          chunks = [pc |-> "loop", start_date |-> start, end_date |-> start + span,
                    chunk_days |-> days, current_start |-> start, requests |-> <<>>]

\* One iteration of the while loop: the request carries the dates of
\* current_start and current_end (strftime("%Y-%m-%d"))
FetchChunk ==
    /\ chunks.pc = "loop"
    /\ chunks.current_start < chunks.end_date
    /\ LET current_end == Min(chunks.current_start + Days(chunks.chunk_days),
                              chunks.end_date)
       IN  chunks' = [chunks EXCEPT
               !.requests = Append(@, <<DateOf(chunks.current_start),
                                        DateOf(current_end)>>),
               !.current_start = current_end + Days(1)]
    /\ UNCHANGED <<response, parsed, simVars, qualityVars, metricVars, storeVars,
                   modelVars, demandVars>>

\* _fetch_single raises (raise_for_status, a timeout): the exception leaves
\* _fetch_in_chunks
FetchChunkFails ==
    /\ chunks.pc = "loop"
    /\ chunks.current_start < chunks.end_date
    /\ chunks' = [chunks EXCEPT !.pc = "failed"]
    /\ UNCHANGED <<response, parsed, simVars, qualityVars, metricVars, storeVars,
                   modelVars, demandVars>>

\* The loop condition fails: return all_records
ReturnChunks ==
    /\ chunks.pc = "loop"
    /\ ~(chunks.current_start < chunks.end_date)
    /\ chunks' = [chunks EXCEPT !.pc = "returned"]
    /\ UNCHANGED <<response, parsed, simVars, qualityVars, metricVars, storeVars,
                   modelVars, demandVars>>

ChunksNext ==
    \/ FetchChunk
    \/ FetchChunkFails
    \/ ReturnChunks

SpecChunks == ChunksInit /\ [][ChunksNext]_vars

\* ------------------------------------------- record construction

\* Field values at, inside and beyond each bound
WeatherFields ==
    [timestamp : {0}, temperature_c : {-61, -60, 20, 60, 61},
     humidity_pct : {-1, 0, 100, 101}, wind_speed_kmh : {-1, 0, 10},
     precipitation_mm : {-1, 0, 5}, cloud_cover_pct : {-1, 0, 100, 101},
     location : {"new_york"}]

EnergyFields ==
    [timestamp : {0}, demand_mwh : {-1, 0, 500000}, temperature_c : {-70, 20},
     is_weekend : BOOLEAN, hour_of_day : {-1, 0, 23, 24}, location : {"new_york"}]

ModelsInit ==
    /\ SimIdle
    /\ QualityIdle
    /\ MetricsIdle
    /\ StoreIdle
    /\ ModelsIdle
    /\ ClientIdle
    /\ DemandIdle

\* WeatherRecord(timestamp=..., temperature_c=..., ...)
BuildWeather(fields) ==
    /\ built' = [kind |-> "weather", fields |-> <<fields>>,
                 outcome |-> NewWeatherRecord(fields)]
    /\ UNCHANGED <<simVars, qualityVars, metricVars, storeVars, demandVars, clientVars>>

\* EnergyRecord(timestamp=..., demand_mwh=..., ...)
BuildEnergy(fields) ==
    /\ built' = [kind |-> "energy", fields |-> <<fields>>,
                 outcome |-> NewEnergyRecord(fields)]
    /\ UNCHANGED <<simVars, qualityVars, metricVars, storeVars, demandVars, clientVars>>

ModelsNext ==
    \/ \E fields \in WeatherFields : BuildWeather(fields)
    \/ \E fields \in EnergyFields : BuildEnergy(fields)

SpecModels == ModelsInit /\ [][ModelsNext]_vars

\* ------------------------------------------- _calculate_demand on two inputs

\* The observations compared: weekdays, a Saturday and a Sunday, three hours,
\* a listed and an unlisted city, and temperatures below, just below, at the
\* ends of, inside and above the comfort band
DemandWeather ==
    {WeatherRecord(Minute(day, hour), temp, loc) :
        day \in {0, 4, 5, 6}, hour \in {3, 12, 18},
        temp \in {-10, COMFORT_MIN - 1, COMFORT_MIN, 20, COMFORT_MAX, 30},
        loc \in {"new_york", "springfield"}}

DemandInit ==
    /\ SimIdle
    /\ QualityIdle
    /\ MetricsIdle
    /\ StoreIdle
    /\ ModelsIdle
    /\ ClientIdle
    /\ observations \in DemandWeather \X DemandWeather
    /\ noise_factor \in NoiseVals
    /\ demand_pair = NotCompared

\* Both observations are simulated with one noise factor
Calculate ==
    /\ demand_pair = NotCompared
    /\ demand_pair' = <<calculate_demand(observations[1], noise_factor),
                    calculate_demand(observations[2], noise_factor)>>
    /\ UNCHANGED <<observations, noise_factor, simVars, qualityVars, metricVars,
                   storeVars, modelVars, clientVars>>

DemandNext == Calculate

SpecDemand == DemandInit /\ [][DemandNext]_vars

\* ------------------------------------------------------- simulator claims

\* The noise values instance i drew during its c-th completed call: the part of
\* its seed's stream that starts after the draws of its earlier calls.
RECURSIVE DrawsBefore(_, _)
DrawsBefore(i, c) ==
    IF c <= 1 THEN 0 ELSE DrawsBefore(i, c - 1) + Len(history[i][c - 1].input)

NoiseOf(i, c, k) == tape[sims[i].arg.seed][DrawsBefore(i, c) + k]

\* C1: two instances constructed with the same seed and given the same input
\* sequence as their first simulate_from_weather call return the same output
\* sequence: the same length and the same demand_mwh at every position.
C1_SameSeedSameOutput ==
    \A i \in Sims, j \in Sims :
        ( /\ sims[i].state # "absent" /\ sims[j].state # "absent"
          /\ sims[i].arg.seeded /\ sims[j].arg.seeded
          /\ sims[i].arg.seed = sims[j].arg.seed
          /\ Len(history[i]) >= 1 /\ Len(history[j]) >= 1
          /\ history[i][1].input = history[j][1].input )
        => /\ Len(history[i][1].output) = Len(history[j][1].output)
           /\ \A k \in 1..Len(history[i][1].output) :
                 history[i][1].output[k].demand_mwh = history[j][1].output[k].demand_mwh

\* Two distinct instances with one seed have both returned from a first call on
\* the same two-record input.
C1_Witness ==
    \E i \in Sims, j \in Sims :
        /\ i # j
        /\ sims[i].arg.seeded /\ sims[j].arg.seeded
        /\ sims[i].arg.seed = sims[j].arg.seed
        /\ Len(history[i]) >= 1 /\ Len(history[j]) >= 1
        /\ history[i][1].input = history[j][1].input
        /\ Len(history[i][1].input) = 2
        /\ history[i][1].output[1].demand_mwh > 0

\* C2: every EnergyRecord simulate_from_weather builds or returns has
\* demand_mwh >= 0, whatever the noise factor was.
C2_DemandNonNegative ==
    \A i \in Sims :
        /\ \A k \in 1..Len(sims[i].energy_records) :
              sims[i].energy_records[k].demand_mwh >= 0
        /\ \A c \in 1..Len(history[i]) : \A k \in 1..Len(history[i][c].output) :
              history[i][c].output[k].demand_mwh >= 0

\* A returned record whose noise factor was negative carries demand 0, and one
\* whose noise factor was positive carries a positive demand.
C2_Witness ==
    \E i \in Sims :
        /\ Len(history[i]) >= 1
        /\ Len(history[i][1].output) = 2
        /\ NoiseOf(i, 1, 1) < 0
        /\ history[i][1].output[1].demand_mwh = 0
        /\ NoiseOf(i, 1, 2) > 0
        /\ history[i][1].output[2].demand_mwh > 0

\* C3: a completed call returns one record per input record, in input order:
\* output[k] copies input[k]'s timestamp, location and temperature_c, is_weekend
\* is true exactly on Saturday and Sunday, hour_of_day is input[k]'s hour, and
\* the demand is the one the multipliers of that flag and that hour give.
C3_OneRecordPerInput ==
    \A i \in Sims : \A c \in 1..Len(history[i]) :
        LET in == history[i][c].input
            out == history[i][c].output
        IN  /\ Len(out) = Len(in)
            /\ \A k \in 1..Len(in) :
                  /\ out[k].timestamp = in[k].timestamp
                  /\ out[k].location = in[k].location
                  /\ out[k].temperature_c = in[k].temperature_c
                  /\ out[k].is_weekend = (WeekdayOf(in[k].timestamp) \in {5, 6})
                  /\ out[k].hour_of_day = HourOf(in[k].timestamp)
                  /\ out[k].demand_mwh =
                        Max(0, ScaledDemand(BaseLoad(in[k].location), in[k].temperature_c,
                                            TimeMult(out[k].hour_of_day),
                                            WeekendMult(out[k].is_weekend),
                                            NoiseOf(i, c, k)))

\* A call has returned for a weekday record followed by a Saturday record.
C3_Witness ==
    \E i \in Sims : \E c \in 1..Len(history[i]) :
        LET in == history[i][c].input
            out == history[i][c].output
        IN  /\ Len(in) = 2 /\ Len(out) = 2
            /\ WeekdayOf(in[1].timestamp) = 0 /\ ~out[1].is_weekend
            /\ WeekdayOf(in[2].timestamp) = 5 /\ out[2].is_weekend
            /\ out[2].hour_of_day = 18 /\ out[2].demand_mwh > 0

\* Positions k and l of the input of instance i's c-th call hold a noon and an
\* evening-peak observation of one weekday date, location and temperature
NoonAndPeak(i, c, k, l) ==
    LET in == history[i][c].input
    IN  /\ HourOf(in[k].timestamp) = 12 /\ HourOf(in[l].timestamp) = 18
        /\ in[k].timestamp \div 1440 = in[l].timestamp \div 1440
        /\ WeekdayOf(in[k].timestamp) < 5
        /\ in[k].location = in[l].location
        /\ in[k].temperature_c = in[l].temperature_c

DrawsOf(i) ==
    DrawsBefore(i, Len(history[i]) + 1)
    + (IF sims[i].state = "running" THEN Len(sims[i].energy_records) ELSE 0)

\* What a call of an instance seeded with seed returns when nothing else runs:
\* record k is built from input k and draw offset + k of the seed's stream
AloneRecord(seed, offset, input, k) ==
    SimRecord(input[k], tape[seed][offset + k])

\* C24: however the calls of distinct instances interleave, every record a
\* call has built is the one it builds when run alone, from its own input and
\* its own instance's stream, and an instance's generator has advanced by
\* exactly the draws of that instance's own calls.
C24_InterleavingIndependent ==
    \A i \in Sims :
        sims[i].state # "absent" =>
            LET seed == sims[i].arg.seed
            IN  /\ sims[i].rng.pos = DrawsOf(i)
                /\ sims[i].rng.seed = seed
                /\ \A c \in 1..Len(history[i]) :
                      LET in == history[i][c].input
                          out == history[i][c].output
                      IN  /\ Len(out) = Len(in)
                          /\ \A k \in 1..Len(in) :
                                /\ DrawsBefore(i, c) + k <= Len(tape[seed])
                                /\ out[k] = AloneRecord(seed, DrawsBefore(i, c), in, k)
                /\ sims[i].state = "running" =>
                      \A k \in 1..Len(sims[i].energy_records) :
                          LET offset == DrawsBefore(i, Len(history[i]) + 1)
                          IN  /\ offset + k <= Len(tape[seed])
                              /\ sims[i].energy_records[k] =
                                     AloneRecord(seed, offset, sims[i].input, k)

\* Two instances with different seeds are both in the middle of a call on two
\* observations, each having built its first record from a different draw.
C24_Witness ==
    /\ \A i \in Sims :
          /\ sims[i].state = "running"
          /\ Len(sims[i].input) = 2
          /\ Len(sims[i].energy_records) = 1
    /\ sims["a"].arg.seed # sims["b"].arg.seed
    /\ tape[sims["a"].arg.seed][1] # tape[sims["b"].arg.seed][1]
    /\ sims["a"].input = sims["b"].input
    /\ sims["a"].energy_records # sims["b"].energy_records

\* The inputs, and the outputs, of the first c calls of an instance, in order
RECURSIVE InputsUpTo(_, _)
InputsUpTo(i, c) ==
    IF c = 0 THEN <<>> ELSE InputsUpTo(i, c - 1) \o history[i][c].input

RECURSIVE OutputsUpTo(_, _)
OutputsUpTo(i, c) ==
    IF c = 0 THEN <<>> ELSE OutputsUpTo(i, c - 1) \o history[i][c].output

\* C29: every observation consumes exactly one draw, whatever its temperature,
\* hour and day: the consecutive calls of one instance return, concatenated,
\* the records one call on the concatenated inputs returns from the start of
\* the seed's stream, and leave the generator one draw per observation on.
C29_OneDrawPerObservation ==
    \A i \in Sims :
        Len(history[i]) >= 2 =>
            LET seed == sims[i].arg.seed
                whole == InputsUpTo(i, Len(history[i]))
                out == OutputsUpTo(i, Len(history[i]))
            IN  /\ Len(tape[seed]) >= Len(whole)
                /\ Len(out) = Len(whole)
                /\ \A k \in 1..Len(whole) : out[k] = AloneRecord(seed, 0, whole, k)
                /\ sims[i].state = "idle" => sims[i].rng.pos = Len(whole)

\* One instance was called twice on the same cold Saturday observation and
\* the second call, reading the next draw, returned another demand.
C29_Witness ==
    \E i \in Sims :
        /\ Len(history[i]) = 2
        /\ Len(history[i][1].input) = 1
        /\ history[i][1].input = history[i][2].input
        /\ history[i][1].input[1].temperature_c = -10
        /\ history[i][1].output # history[i][2].output
        /\ sims[i].rng.pos = 2

\* --------------------------------------------------- quality checker claims

Statuses == {"pass", "warn", "fail"}

\* The verdict of the rule with this check_name in the returned list
Verdict(name) ==
    results.verdicts[CHOOSE k \in 1..Len(results.verdicts) :
                        results.verdicts[k].check_name = name]

CompletenessName ==
    IF data_type = "weather" THEN "weather_completeness" ELSE "energy_completeness"

NamesOf(verdicts) == [k \in 1..Len(verdicts) |-> verdicts[k].check_name]

\* C4: check_weather returns its five verdicts and check_energy its four, in
\* the order of the rules, for every input and without raising; every status
\* is pass, warn or fail, and on an empty input none is pass.
C4_OneVerdictPerRule ==
    results.called =>
        /\ ~results.raised
        /\ data_type = "weather" =>
              NamesOf(results.verdicts) =
                  <<"weather_completeness", "weather_freshness", "temperature_range",
                    "uniqueness", "no_gaps">>
        /\ data_type = "energy" =>
              NamesOf(results.verdicts) =
                  <<"energy_completeness", "demand_range", "uniqueness",
                    "demand_consistency">>
        /\ \A k \in 1..Len(results.verdicts) :
              /\ results.verdicts[k].status \in Statuses
              /\ records = <<>> => results.verdicts[k].status \in {"fail", "warn"}

\* check_weather has returned on the empty sequence: four fails and the warn
\* of no_gaps.
C4_Witness ==
    /\ results.called /\ data_type = "weather" /\ records = <<>>
    /\ Len(results.verdicts) = 5
    /\ results.verdicts[2].status = "fail"
    /\ results.verdicts[5].status = "warn"

\* C7: completeness is pass for a count >= 24, warn for a count in [12, 24) and
\* fail for a count < 12, with metric_value the count and threshold 24, for
\* weather and energy sequences alike.
C7_CompletenessThresholds ==
    results.called =>
        LET v == Verdict(CompletenessName)
            n == Len(records)
        IN  /\ v.metric_value = <<n>>
            /\ v.threshold = <<24>>
            /\ (v.status = "pass") = (n >= 24)
            /\ (v.status = "warn") = (12 <= n /\ n < 24)
            /\ (v.status = "fail") = (n < 12)

\* check_energy has returned warn for 12 records.
C7_Witness ==
    /\ results.called /\ data_type = "energy" /\ Len(records) = 12
    /\ Verdict("energy_completeness").status = "warn"
    /\ Verdict("energy_completeness").metric_value = <<12>>

\* C8 as stated: completeness is fail for 23 records, pass for 24, fail for 5.
C8_Original ==
    results.called =>
        /\ Len(records) = 23 => Verdict(CompletenessName).status = "fail"
        /\ Len(records) = 24 => Verdict(CompletenessName).status = "pass"
        /\ Len(records) = 5 => Verdict(CompletenessName).status = "fail"

\* C8, amended: completeness is warn for 23 records, pass for 24, fail for 5.
C8_Completeness23Warns ==
    results.called =>
        /\ Len(records) = 23 => Verdict(CompletenessName).status = "warn"
        /\ Len(records) = 24 => Verdict(CompletenessName).status = "pass"
        /\ Len(records) = 5 => Verdict(CompletenessName).status = "fail"

\* check_weather has returned for 23 records.
C8_Witness ==
    /\ results.called /\ data_type = "weather" /\ Len(records) = 23
    /\ Verdict("weather_completeness").status = "warn"

KeysOf(recs) == {<<recs[k].timestamp, recs[k].location>> : k \in 1..Len(recs)}

\* C9: uniqueness reports the record count minus the number of distinct
\* (timestamp, location) keys; it is pass for 0 duplicates, warn for at most 1%
\* of the records, fail above 1% and on empty input; 30 records of one key
\* give 29 duplicates and fail.
C9_UniquenessCountsRepeats ==
    results.called =>
        LET v == Verdict("uniqueness")
            n == Len(records)
            d == n - Cardinality(KeysOf(records))
        IN  /\ n = 0 => v.status = "fail"
            /\ n > 0 =>
                  /\ v.metric_value = <<d>>
                  /\ d = 0 => v.status = "pass"
                  /\ (d > 0 /\ 100 * d <= n) => v.status = "warn"
                  /\ 100 * d > n => v.status = "fail"
            /\ (n = 30 /\ Cardinality(KeysOf(records)) = 1) =>
                  (v.metric_value = <<29>> /\ v.status = "fail")

\* 100 records with one repeated key: exactly 1%, a warn.
C9_Witness ==
    /\ results.called /\ Len(records) = 100
    /\ Cardinality(KeysOf(records)) = 99
    /\ Verdict("uniqueness").metric_value = <<1>>
    /\ Verdict("uniqueness").status = "warn"

\* The timestamps of the records of one location
TimesAt(recs, loc) ==
    {recs[k].timestamp : k \in {j \in 1..Len(recs) : recs[j].location = loc}}

\* The instants of a location that are followed, within that location, by
\* nothing for more than 1h15m and by something later
GapsAt(recs, loc) ==
    LET T == TimesAt(recs, loc)
    IN  {t \in T : /\ \E w \in T : w > t
                   /\ \A w \in T : w > t => w - t > 75}

RECURSIVE SumGaps(_, _)
SumGaps(recs, locs) ==
    IF locs = {} THEN 0
    ELSE LET loc == CHOOSE l \in locs : TRUE
         IN  Cardinality(GapsAt(recs, loc)) + SumGaps(recs, locs \ {loc})

\* C10: no_gaps counts, location by location, the neighbouring instants more
\* than 1h15m apart, and never a pair of records of different locations; it is
\* pass for 0 gaps, warn for 1 to 3, fail above 3, and warn below 2 records.
C10_GapsPerLocation ==
    (results.called /\ data_type = "weather") =>
        LET v == Verdict("no_gaps")
            g == SumGaps(records, {records[k].location : k \in 1..Len(records)})
        IN  IF Len(records) < 2 THEN v.status = "warn"
            ELSE /\ v.metric_value = <<g>>
                 /\ (v.status = "pass") = (g = 0)
                 /\ (v.status = "warn") = (1 <= g /\ g <= 3)
                 /\ (v.status = "fail") = (g > 3)

\* Two locations whose records lie more than 1h15m apart, and no gap reported.
C10_Witness ==
    /\ results.called /\ data_type = "weather"
    /\ \E i \in 1..Len(records), j \in 1..Len(records) :
          /\ records[i].location # records[j].location
          /\ records[j].timestamp - records[i].timestamp > 75
          /\ \A k \in 1..Len(records) :
                ~(records[i].timestamp < records[k].timestamp
                  /\ records[k].timestamp < records[j].timestamp)
    /\ Verdict("no_gaps").metric_value = <<0>>
    /\ Verdict("no_gaps").status = "pass"

\* The positions of the records of one location
IndicesAt(recs, loc) == {k \in 1..Len(recs) : recs[k].location = loc}

\* Record j comes before record i when a location's records are put in
\* timestamp order, records of one timestamp staying in input order
Before(recs, j, i) ==
    \/ recs[j].timestamp < recs[i].timestamp
    \/ recs[j].timestamp = recs[i].timestamp /\ j < i

\* The positions of a location's records, put in that order
OrderAt(recs, loc) ==
    SortSeq(SelectSeq([k \in 1..Len(recs) |-> k], LAMBDA k : k \in IndicesAt(recs, loc)),
            LAMBDA j, i : Before(recs, j, i))

\* The places of an order where the demand changes by more than half of the
\* demand just before
SpikesIn(recs, order) ==
    {n \in 2..Len(order) :
        LET prev == recs[order[n - 1]].demand_mwh
            curr == recs[order[n]].demand_mwh
        IN  /\ prev > 0
            /\ 2 * (IF curr > prev THEN curr - prev ELSE prev - curr) > prev}

SpikesAt(recs, loc) == SpikesIn(recs, OrderAt(recs, loc))

RECURSIVE SumSpikes(_, _)
SumSpikes(recs, locs) ==
    IF locs = {} THEN 0
    ELSE LET loc == CHOOSE l \in locs : TRUE
         IN  Cardinality(SpikesAt(recs, loc)) + SumSpikes(recs, locs \ {loc})

\* C11: demand_consistency counts, location by location and in timestamp order,
\* the neighbouring records whose demand differs by more than 50% of the earlier
\* one, and never a pair of records of different locations; it is pass for 0
\* spikes, warn for 1 to 5, fail above 5, and warn below 2 records.
C11_SpikesPerLocation ==
    (results.called /\ data_type = "energy") =>
        LET v == Verdict("demand_consistency")
            c == SumSpikes(records, {records[k].location : k \in 1..Len(records)})
        IN  IF Len(records) < 2 THEN v.status = "warn"
            ELSE /\ v.metric_value = <<c>>
                 /\ (v.status = "pass") = (c = 0)
                 /\ (v.status = "warn") = (1 <= c /\ c <= 5)
                 /\ (v.status = "fail") = (c > 5)

\* A swinging series with a record of another location and a fall to 0 MWh:
\* six spikes, a fail.
C11_Witness ==
    /\ results.called /\ data_type = "energy"
    /\ \E k \in 1..Len(records) : records[k].location = "chicago"
    /\ \E k \in 1..Len(records) :
          records[k].location = "new_york" /\ records[k].demand_mwh = 0
    /\ Verdict("demand_consistency").metric_value = <<6>>
    /\ Verdict("demand_consistency").status = "fail"

\* The spikes of an order whose two records lie at different instants
SpikesApart(recs, order) ==
    {n \in SpikesIn(recs, order) :
        recs[order[n - 1]].timestamp # recs[order[n]].timestamp}

RECURSIVE SumSpikesApart(_, _)
SumSpikesApart(recs, locs) ==
    IF locs = {} THEN 0
    ELSE LET loc == CHOOSE l \in locs : TRUE
         IN  Cardinality(SpikesApart(recs, OrderAt(recs, loc)))
             + SumSpikesApart(recs, locs \ {loc})

\* C26: neighbouring records of one location with exactly equal timestamps are
\* never counted: no_gaps reports only the gaps between different instants and
\* demand_consistency only the spikes between records of different instants,
\* whatever the demands of two records of one instant are.
C26_EqualTimestampsNotCounted ==
    (results.called /\ Len(records) >= 2) =>
        LET locs == {records[k].location : k \in 1..Len(records)}
        IN  IF data_type = "weather"
            THEN Verdict("no_gaps").metric_value = <<SumGaps(records, locs)>>
            ELSE Verdict("demand_consistency").metric_value
                    = <<SumSpikesApart(records, locs)>>

\* The places of an order whose earlier record has demand 0
ZeroBefore(recs, order) ==
    {n \in 2..Len(order) : recs[order[n - 1]].demand_mwh = 0}

RECURSIVE SumSpikesAfterPositive(_, _)
SumSpikesAfterPositive(recs, locs) ==
    IF locs = {} THEN 0
    ELSE LET loc == CHOOSE l \in locs : TRUE
             order == OrderAt(recs, loc)
         IN  Cardinality(SpikesIn(recs, order) \ ZeroBefore(recs, order))
             + SumSpikesAfterPositive(recs, locs \ {loc})

\* C30: demand_consistency never raises and never counts a neighbouring pair
\* whose earlier record has demand 0, whatever the later demand is: the count
\* is the number of spikes among the pairs whose earlier demand is positive.
C30_ZeroPreviousSkipped ==
    (results.called /\ data_type = "energy") =>
        /\ ~results.raised
        /\ Len(records) >= 2 =>
              Verdict("demand_consistency").metric_value =
                  <<SumSpikesAfterPositive(
                        records, {records[k].location : k \in 1..Len(records)})>>

\* A record of 0 MWh followed, in the same location, by one of 5100 MWh:
\* no spike is counted and the rule passes.
C30_Witness ==
    /\ results.called /\ data_type = "energy" /\ ~results.raised
    /\ Len(records) = 2
    /\ records[1].demand_mwh = 0 /\ records[2].demand_mwh = 510000
    /\ records[1].timestamp < records[2].timestamp
    /\ records[1].location = records[2].location
    /\ Verdict("demand_consistency").metric_value = <<0>>
    /\ Verdict("demand_consistency").status = "pass"

\* The values a range rule looks at, and its bounds
RangeName == IF data_type = "weather" THEN "temperature_range" ELSE "demand_range"

RangeValues ==
    [k \in 1..Len(records) |->
        IF data_type = "weather" THEN records[k].temperature_c
        ELSE records[k].demand_mwh]

OutOfRange ==
    {k \in 1..Len(records) :
        IF data_type = "weather"
        THEN RangeValues[k] < -40 \/ RangeValues[k] > 50
        ELSE RangeValues[k] < 500 * 100 \/ RangeValues[k] > 15000 * 100}

\* C12: temperature_range (over [-40, 50] degrees) and demand_range (over
\* [500, 15000] MWh), bounds included, report the number of records outside
\* the range; the status is pass for none, warn for a share of at most 5% and
\* fail above 5%.
C12_RangeRules ==
    (results.called /\ records # <<>>) =>
        LET v == Verdict(RangeName)
            out == Cardinality(OutOfRange)
        IN  /\ v.metric_value = <<out>>
            /\ (v.status = "pass") = (out = 0)
            /\ (v.status = "warn") = (out > 0 /\ 100 * out <= 5 * Len(records))
            /\ (v.status = "fail") = (100 * out > 5 * Len(records))

\* Twenty weather records, one at 55 degrees and one at the bound of 50: one
\* out of range, exactly 5%, a warn.
C12_Witness ==
    /\ results.called /\ data_type = "weather" /\ Len(records) = 20
    /\ \E k \in 1..20 : records[k].temperature_c = 55
    /\ \E k \in 1..20 : records[k].temperature_c = 50
    /\ Verdict("temperature_range").metric_value = <<1>>
    /\ Verdict("temperature_range").status = "warn"

\* The instant of the check: checked_at of the verdicts
CheckedAt == results.verdicts[1].checked_at

\* The latest timestamp among the records
Latest == CHOOSE t \in {records[k].timestamp : k \in 1..Len(records)} :
              \A k \in 1..Len(records) : records[k].timestamp <= t

\* C13: with age the time from the latest weather timestamp to the check,
\* freshness is pass for age <= 48h, warn for 48h < age <= 96h, fail for
\* age > 96h, and fail on empty input.
C13_FreshnessBands ==
    (results.called /\ data_type = "weather") =>
        LET v == Verdict("weather_freshness")
        IN  IF records = <<>> THEN v.status = "fail"
            ELSE LET age == CheckedAt - Latest
                 IN  /\ (v.status = "pass") = (age <= 48 * 60)
                     /\ (v.status = "warn") = (48 * 60 < age /\ age <= 96 * 60)
                     /\ (v.status = "fail") = (age > 96 * 60)

\* The latest record is exactly 96 hours old at the check: a warn.
C13_Witness ==
    /\ results.called /\ data_type = "weather" /\ records # <<>>
    /\ CheckedAt - Latest = 96 * 60
    /\ Verdict("weather_freshness").status = "warn"

\* --------------------------------------------------- metrics engine claims

\* The metric_name and unit each metric function reports
NameOf(fn) == IF fn = "weekend_vs_weekday" THEN "weekend_weekday_ratio" ELSE fn

UnitOf(fn) == IF fn \in {"peak_hour_ratio", "weekend_vs_weekday"} THEN "ratio" ELSE "MWh"

\* C5: each of the seven metric functions returns, without raising, a result
\* with its own metric_name and unit, and on an empty sequence with value 0.
C5_EmptyInputGivesZero ==
    (metric_results.called /\ call.fn \in MetricFunctions) =>
        /\ ~metric_results.raised
        /\ Len(metric_results.values) = 1
        /\ metric_results.values[1].metric_name = NameOf(call.fn)
        /\ metric_results.values[1].unit = UnitOf(call.fn)
        /\ energy_records = <<>> => metric_results.values[1].value = 0

\* average_demand has returned on the empty sequence.
C5_Witness ==
    /\ metric_results.called /\ call.fn = "average_demand"
    /\ energy_records = <<>>
    /\ metric_results.values[1].value = 0
    /\ metric_results.values[1].unit = "MWh"

SevenNames ==
    <<"total_demand", "peak_demand", "average_demand", "peak_hour_ratio",
      "weekend_weekday_ratio", "peak_hour_demand", "overnight_minimum">>

MetricNames == [k \in 1..Len(metric_results.values) |->
                   metric_results.values[k].metric_name]

\* C6 as stated: compute_all returns the seven metrics in order, followed by
\* temperature_sensitivity exactly when a weather argument, of any length, is
\* passed.
C6_Original ==
    (metric_results.called /\ call.fn = "compute_all") =>
        MetricNames = IF call.weather # <<>>
                      THEN SevenNames \o <<"temperature_sensitivity">>
                      ELSE SevenNames

\* The demands of the engine's records, divided by their common divisor
Unit == GcdOver([k \in 1..Len(energy_records) |-> energy_records[k].demand_mwh], 1)

Scaled(k) == IF Unit = 0 THEN 0 ELSE energy_records[k].demand_mwh \div Unit

RECURSIVE SumScaled(_)
\* The sum of the scaled demands at the positions S
SumScaled(S) ==
    IF S = {} THEN 0
    ELSE LET k == CHOOSE j \in S : TRUE IN Scaled(k) + SumScaled(S \ {k})

\* v is num / den to the nearest thousandth
NearestMilli(v, num, den) ==
    LET diff == v * den - 1000 * num
    IN  2 * (IF diff < 0 THEN -diff ELSE diff) <= den

\* C15: the ratio metrics never divide by zero: peak_hour_ratio is peak over
\* average, and 0 on empty input or an average of 0; weekend_weekday_ratio is
\* the mean weekend demand over the mean demand of the other records, and 0
\* when either group is empty.
C15_RatiosDefined ==
    (metric_results.called /\ call.fn \in {"peak_hour_ratio", "weekend_vs_weekday"}) =>
        /\ ~metric_results.raised
        /\ LET v == metric_results.values[1].value
               all == 1..Len(energy_records)
               we == {k \in all : energy_records[k].is_weekend}
               wd == all \ we
           IN  IF call.fn = "peak_hour_ratio"
               THEN IF all = {} \/ SumScaled(all) = 0 THEN v = 0
                    ELSE \E k \in all :
                            /\ \A j \in all : Scaled(j) <= Scaled(k)
                            /\ NearestMilli(v, Scaled(k) * Len(energy_records),
                                            SumScaled(all))
               ELSE IF we = {} \/ wd = {} \/ SumScaled(wd) = 0 THEN v = 0
                    ELSE NearestMilli(v, SumScaled(we) * Cardinality(wd),
                                      SumScaled(wd) * Cardinality(we))

\* peak_hour_ratio has returned 0 for records whose demands are all 0.
C15_Witness ==
    /\ metric_results.called /\ call.fn = "peak_hour_ratio"
    /\ Len(energy_records) = 2
    /\ \A k \in 1..2 : energy_records[k].demand_mwh = 0
    /\ ~metric_results.raised
    /\ metric_results.values[1].value = 0

\* The energy records whose key some weather record of the call has
PairedDemands ==
    LET weather == call.weather[1]
        hit == {k \in 1..Len(energy_records) :
                   \E w \in 1..Len(weather) :
                       /\ weather[w].timestamp = energy_records[k].timestamp
                       /\ weather[w].location = energy_records[k].location}
    IN  [k \in hit |-> energy_records[k].demand_mwh]

\* The temperatures stored under the keys of those records
PairedTemps ==
    LET weather == call.weather[1]
    IN  {weather[w].temperature_c :
            w \in {x \in 1..Len(weather) :
                      \E k \in DOMAIN PairedDemands :
                          /\ weather[x].timestamp = energy_records[k].timestamp
                          /\ weather[x].location = energy_records[k].location}}

\* C16: temperature_sensitivity returns 0 when fewer than 10 energy records
\* have a weather record of their key, and returns 0 without raising when all
\* paired temperatures are equal or all paired demands are equal.
C16_DegenerateCorrelationIsZero ==
    (metric_results.called /\ call.fn = "temperature_sensitivity") =>
        /\ ~metric_results.raised
        /\ (\/ Cardinality(DOMAIN PairedDemands) < 10
            \/ Cardinality(PairedTemps) <= 1
            \/ Cardinality({PairedDemands[k] : k \in DOMAIN PairedDemands}) <= 1)
           => metric_results.values[1].value = 0

C18_DimensionsCarried ==
    (metric_results.called /\ ~metric_results.raised) =>
        \A k \in 1..Len(metric_results.values) :
            metric_results.values[k].dimensions =
                IF call.dims = <<>> THEN {} ELSE call.dims[1]

\* compute_all has returned for an empty energy list and one tag: seven
\* zero-valued results carrying the tag.
C18_Witness ==
    /\ metric_results.called /\ call.fn = "compute_all"
    /\ energy_records = <<>>
    /\ call.dims = <<{<<"location", "new_york">>}>>
    /\ Len(metric_results.values) = 7
    /\ \A k \in 1..7 : metric_results.values[k].dimensions = {<<"location", "new_york">>}

\* ------------------------------------------------- store and command claims

\* C14: within one quality run no two verdicts carry the same check_name.
C14_CheckNamesUnique ==
    \A i \in 1..Len(all_results), j \in 1..Len(all_results) :
        all_results[i].check_name = all_results[j].check_name => i = j

TableOf(name) == IF name = "weather" THEN weather_table ELSE energy_table

\* The rows a get call with this location argument selects
RowsFor(name, location) ==
    IF location = <<>> THEN TableOf(name)
    ELSE {x \in TableOf(name) : x.location = location[1]}

\* C23: after any sequence of save_weather / save_energy calls each table
\* holds at most one row per (timestamp, location) key, and that row is the
\* record most recently saved under the key; a get_weather / get_energy call
\* returns, newest first and without repeats, min(limit, matching rows)
\* records, each equal in every field to the saved record of its key.
C23_UpsertRoundTrip ==
    /\ \A name \in {"weather", "energy"} :
          /\ \A x \in TableOf(name), y \in TableOf(name) : Key(x) = Key(y) => x = y
          /\ \A x \in TableOf(name) :
                /\ Key(x) \in StoreKeys
                /\ last_saved[name][Key(x)] # <<>>
                /\ last_saved[name][Key(x)][1].record = x
          /\ \A key \in StoreKeys :
                last_saved[name][key] # <<>> => \E x \in TableOf(name) : Key(x) = key
    /\ ( /\ fetched.called
          /\ stages[Len(stages)] = (IF fetched.table = "weather" THEN "get_weather"
                                    ELSE "get_energy") )
        => LET recs == fetched.records
               rows == RowsFor(fetched.table, fetched.location)
           IN  /\ Len(recs) = Min(Cardinality(rows), fetched.limit)
               /\ \A k \in 1..Len(recs) :
                     /\ recs[k] \in rows
                     /\ recs[k] = last_saved[fetched.table][Key(recs[k])][1].record
               /\ \A k \in 1..Len(recs), j \in 1..Len(recs) :
                     k < j => /\ recs[k] # recs[j]
                              /\ recs[k].timestamp >= recs[j].timestamp

\* A new_york reading was saved twice under one key with different
\* temperatures, and get_weather has just returned the later one.
C23_Witness ==
    /\ fetched.called /\ fetched.table = "weather"
    /\ stages[Len(stages)] = "get_weather"
    /\ Len(fetched.records) = 1
    /\ LET r == fetched.records[1]
       IN  /\ last_saved.weather[Key(r)][1].saves >= 2
           /\ last_saved.weather[Key(r)][1].record = r
           /\ r.temperature_c = 25
           /\ stages = <<"save_weather", "save_weather", "get_weather">>

\* The storage stages of one run, in the order run reaches them
RunStages == <<"save_weather", "save_energy", "quality", "metrics">>

\* Every record of recs that no later record of recs replaces is a row of table
Persisted(recs, table) ==
    \A k \in 1..Len(recs) :
        (\A j \in (k + 1)..Len(recs) : Key(recs[j]) # Key(recs[k])) => recs[k] \in table

\* C25: within one run the stages happen in the order ingest, quality,
\* metrics, each at most once: quality is entered only with the fetched
\* weather and the simulated energy records persisted, metrics only with the
\* nine verdicts of this run's quality stage persisted.
C25_StagesInOrder ==
    run.pc # "idle" =>
        /\ Len(stages) <= Len(RunStages)
        /\ stages = SubSeq(RunStages, 1, Len(stages))
        /\ run.pc \in {"fetch", "save_weather"} => stages = <<>>
        /\ run.pc = "save_energy" => stages = SubSeq(RunStages, 1, 1)
        /\ run.pc = "quality" =>
              /\ stages = SubSeq(RunStages, 1, 2)
              /\ Persisted(run.weather, weather_table)
              /\ Persisted(run.energy, energy_table)
        /\ run.pc = "metrics" =>
              /\ stages = SubSeq(RunStages, 1, 3)
              /\ Len(all_results) = 9
              /\ Len(quality_checks) = 9
              /\ \A k \in 1..9 :
                    /\ quality_checks[k].check_name = all_results[k].check_name
                    /\ quality_checks[k].status = all_results[k].status
        /\ run.pc = "done" =>
              /\ stages = RunStages
              /\ Len(quality_checks) = 9
              /\ Len(metrics_table) >= 7

\* A run on two fetched observations has completed: both tables are filled,
\* nine verdicts and eight metrics are persisted.
C25_Witness ==
    /\ run.pc = "done"
    /\ stages = RunStages
    /\ Len(run.weather) = 2
    /\ Cardinality(weather_table) = 2 /\ Cardinality(energy_table) = 2
    /\ Len(quality_checks) = 9
    /\ Len(metrics_table) = 8

\* ------------------------------------------------------- client claims

\* The time entries of a response, if it has any
TimesOf(data) ==
    IF data.hourly.kind = "object" /\ data.hourly.value.time.kind = "array"
    THEN data.hourly.value.time.values
    ELSE <<>>

\* Field name holds a number at position i
PresentAt(data, name, i) ==
    LET field == data.hourly.value[name]
    IN  /\ field.kind = "array"
        /\ i <= Len(field.values)
        /\ field.values[i] # <<>>

\* Position i has a valid time and all five fields present and in range
ValidAt(data, i) ==
    /\ TimesOf(data)[i].kind = "iso"
    /\ \A n \in 1..Len(FieldNames) : PresentAt(data, FieldNames[n], i)
    /\ LET v(name) == data.hourly.value[name].values[i][1]
       IN  /\ v("temperature_2m") \in -60..60
           /\ v("relative_humidity_2m") \in 0..100
           /\ v("wind_speed_10m") >= 0
           /\ v("precipitation") >= 0
           /\ v("cloud_cover") \in 0..100

\* The record of a valid position
RecordAt(data, i, location) ==
    LET v(name) == data.hourly.value[name].values[i][1]
    IN  [timestamp |-> TimesOf(data)[i].t, temperature_c |-> v("temperature_2m"),
         humidity_pct |-> v("relative_humidity_2m"),
         wind_speed_kmh |-> v("wind_speed_10m"),
         precipitation_mm |-> v("precipitation"),
         cloud_cover_pct |-> v("cloud_cover"), location |-> location]

RECURSIVE ValidRecords(_, _, _)
ValidRecords(data, i, location) ==
    IF i > Len(TimesOf(data)) THEN <<>>
    ELSE (IF ValidAt(data, i) THEN <<RecordAt(data, i, location)>> ELSE <<>>)
         \o ValidRecords(data, i + 1, location)

\* C27: _parse_response never raises: for every response it returns, in the
\* order of the time array, one record for each position whose five fields
\* are all present and valid, and skips every position with a missing, null
\* or out-of-range field.
C27_ParseNeverRaises ==
    parsed.called =>
        /\ ~parsed.raised
        /\ parsed.records = ValidRecords(response, 1, "new_york")

\* The requests whose day range holds day
RequestsFor(day) ==
    {k \in 1..Len(chunks.requests) :
        chunks.requests[k][1] <= day /\ day <= chunks.requests[k][2]}

\* C28: when _fetch_in_chunks returns, every day from the date of start_date
\* to the date of end_date lies in the day range of exactly one request, and
\* no request spans more than chunk_days + 1 days.
C28_ChunksCoverRange ==
    chunks.pc = "returned" =>
        /\ \A day \in DateOf(chunks.start_date)..DateOf(chunks.end_date) :
              Cardinality(RequestsFor(day)) = 1
        /\ \A k \in 1..Len(chunks.requests) :
              chunks.requests[k][2] - chunks.requests[k][1] + 1 <= chunks.chunk_days + 1

\* ------------------------------------------------ record construction claims

\* C19: constructing a record with an out-of-range field fails and yields no
\* record; a WeatherRecord needs temperature_c in [-60, 60], humidity_pct and
\* cloud_cover_pct in [0, 100], wind_speed_kmh >= 0 and precipitation_mm >= 0,
\* an EnergyRecord needs demand_mwh >= 0 and hour_of_day in 0..23; everything
\* in range constructs a record with the given field values.
C19_ConstructionValidates ==
    built.kind # "none" =>
        LET f == built.fields[1]
            in_range ==
                IF built.kind = "weather"
                THEN /\ f.temperature_c \in -60..60
                     /\ f.humidity_pct \in 0..100
                     /\ f.cloud_cover_pct \in 0..100
                     /\ f.wind_speed_kmh >= 0
                     /\ f.precipitation_mm >= 0
                ELSE f.demand_mwh >= 0 /\ f.hour_of_day \in 0..23
        IN  /\ in_range => built.outcome = [ok |-> TRUE, record |-> <<f>>]
            /\ ~in_range => built.outcome = [ok |-> FALSE, record |-> <<>>]

\* A WeatherRecord at 61 degrees, everything else in range, was refused.
C19_Witness ==
    /\ built.kind = "weather"
    /\ built.fields[1].temperature_c = 61
    /\ built.fields[1].humidity_pct = 100
    /\ built.fields[1].wind_speed_kmh = 0
    /\ built.fields[1].precipitation_mm = 0
    /\ built.fields[1].cloud_cover_pct = 0
    /\ ~built.outcome.ok

\* ------------------------------------------------------ demand comparisons

\* The first observation falls on a weekday, the second on a Saturday, at the
\* same hour, temperature and location
WeekdayAndSaturday ==
    /\ WeekdayOf(observations[1].timestamp) < 5
    /\ WeekdayOf(observations[2].timestamp) = 5
    /\ HourOf(observations[1].timestamp) = HourOf(observations[2].timestamp)
    /\ observations[1].temperature_c = observations[2].temperature_c
    /\ observations[1].location = observations[2].location

ColdAndComfort ==
    /\ observations[1].temperature_c < COMFORT_MIN
    /\ observations[2].temperature_c >= COMFORT_MIN
    /\ observations[2].temperature_c <= COMFORT_MAX
    /\ observations[1].timestamp = observations[2].timestamp
    /\ observations[1].location = observations[2].location

====
